---------------------------- MODULE Spec2Model ----------------------------
(***************************************************************************)
(* A model of visage::Path (src/visage_graphics/path.h): the incremental   *)
(* path builder, its cached TriangulationGraph handle (clone_ptr) and the  *)
(* parts of the triangulation pipeline the header declares.                *)
(*                                                                         *)
(* Coordinates are integers counting grid steps of 2^-11, so every sum,    *)
(* difference and small product below is exact in the source's float too.  *)
(* The error tolerance is an integer counting steps of 1/10240 (one fifth  *)
(* of a grid step), so the default 0.1f is 1024.                           *)
(***************************************************************************)
EXTENDS Integers, Sequences, FiniteSets, TLC

VARIABLES
  paths_,                 \* std::vector<SubPath>
  last_point_,            \* Point
  smooth_control_point_,  \* Point
  current_value_,         \* float
  triangulation_graph_,   \* clone_ptr<TriangulationGraph>
  fill_rule_,             \* FillRule
  error_tolerance_,       \* float, in steps of 1/10240
  ndebug,                 \* the build: TRUE when NDEBUG is defined
  aborted,                \* debugAssert(false) has terminated the program
  last_call,              \* history: the public call that made the last step
  set_value,              \* history: argument of the last setPointValue
  moved_since_set,        \* history: a moveTo began a sub-path since then
  num_transforms,         \* history: number of scale/translate/... calls
  objects,                \* two Path objects, for copy construction/assignment
  next_address,           \* the address the next allocated graph gets
  convex_points,          \* numPoints() of a Path that holds a convex polygon
  triangulation,          \* the Triangulation that triangulate() returned
  command_list,           \* a CommandList: its commands, start and current
  sorted_indices_,        \* std::vector<IndexData> of a TriangulationGraph
  intersection_events_,   \* std::vector<IntersectionEvent> of a ScanLine
  next_intersection_,     \* int: the selected event, -1 for none
  filled_region,          \* the faces that the returned geometry covers
  other_path,             \* the Path that is the argument of combine
  orientation_result,     \* double: what stableOrientation returned
  areas_,                 \* std::vector<ScanLineArea> of a ScanLine
  aliases_,               \* std::map<int, int> of a ScanLine
  current_index_,         \* int: the position in the sorted index
  edit_positions_,        \* std::vector<int> of a ScanLine
  next_edge_,             \* std::vector<int> of a TriangulationGraph
  alias_call,             \* the call of addAlias that is running, if any
  pairing                 \* the call of pairInsOuts: its locals and its handler's calls

\* the state of the Path objects and of their history, but for last_call
pathState ==
  <<paths_, last_point_, smooth_control_point_, current_value_,
    triangulation_graph_, fill_rule_, error_tolerance_, ndebug, aborted,
    set_value, moved_since_set, num_transforms, objects, next_address,
    convex_points, triangulation>>

\* the objects of the classes around the graph
sweepObjects ==
  <<command_list, sorted_indices_, intersection_events_, next_intersection_,
    filled_region, other_path>>

\* the state of the free functions and of the scan line
scanLineObjects ==
  <<areas_, aliases_, current_index_, edit_positions_, next_edge_, alias_call>>

laterObjects == <<orientation_result, scanLineObjects, pairing>>

\* the objects of the other classes
otherObjects ==
  <<command_list, sorted_indices_, intersection_events_, next_intersection_,
    filled_region, other_path, laterObjects>>

vars == <<paths_, last_point_, smooth_control_point_, current_value_,
          triangulation_graph_, fill_rule_, error_tolerance_, ndebug,
          aborted, last_call, set_value, moved_since_set, num_transforms,
          objects,
                         next_address, convex_points, triangulation, otherObjects>>

---------------------------------------------------------------------------
(* Bounds of the model *)

\* the most vertices of a graph
MaxIndices == 3

\* total number of points a Path may hold
MaxPoints == 3
\* number of sub-paths a Path may hold
MaxSubPaths == 3
\* largest absolute coordinate, in grid steps
MaxCoord == 24
\* number of scale/translate/rotate/transform/reverse calls in one run
MaxTransforms == 2

---------------------------------------------------------------------------
(* Program constants *)

\* kDefaultErrorTolerance = 0.1f, in steps of 1/10240
kDefaultErrorTolerance == 1024
\* kCloseEpsilon = 0.000001f, as the numerator of kCloseEpsilonNum / 10^6
kCloseEpsilonNum == 1
\* number of binary digits of a grid step: one step is 2^-GridBits
GridBits == 11

\* an empty clone_ptr; a clone_ptr owning graph g is <<g>>
NoGraph == <<>>
\* no setPointValue call yet; after setPointValue(v) the history holds <<v>>
NoValue == <<>>
FillRules == {"NonZero", "Positive", "EvenOdd"}

---------------------------------------------------------------------------
(* Point arithmetic (visage Point: x, y) *)

Pt(x, y) == <<x, y>>
Origin == <<0, 0>>
PAdd(a, b) == <<a[1] + b[1], a[2] + b[2]>>
PSub(a, b) == <<a[1] - b[1], a[2] - b[2]>>
PMul(a, k) == <<a[1] * k, a[2] * k>>
Dot(a, b) == a[1] * b[1] + a[2] * b[2]
Cross(a, b) == a[1] * b[2] - a[2] * b[1]
squareMagnitude(a) == Dot(a, a)
Abs(n) == IF n < 0 THEN -n ELSE n
InBox(p) == Abs(p[1]) <= MaxCoord /\ Abs(p[2]) <= MaxCoord

Last(s) == s[Len(s)]
EmptySubPath == [points |-> <<>>, values |-> <<>>, closed |-> FALSE]

\* a double that holds an integer: its sign and its decimal digits, the least
\* significant first (exact below 2^53, where the model keeps its inputs)
DZero == [negative |-> FALSE, digits |-> <<>>]

\* no call of pairInsOuts has been made
NoPairing ==
  [input |-> <<>>, sorted |-> <<>>, areas |-> <<>>, it |-> 0, pass |-> "idle",
   handled |-> <<>>, steps |-> 0]

RECURSIVE numPointsOf(_)
numPointsOf(ps) ==
  IF ps = <<>> THEN 0 ELSE Len(ps[1].points) + numPointsOf(Tail(ps))

RECURSIVE allPoints(_)
allPoints(ps) ==
  IF ps = <<>> THEN <<>> ELSE ps[1].points \o allPoints(Tail(ps))

RECURSIVE allValues(_)
allValues(ps) ==
  IF ps = <<>> THEN <<>> ELSE ps[1].values \o allValues(Tail(ps))

---------------------------------------------------------------------------
(* The Path object as a record, and its private helpers *)

Self ==
  [paths_ |-> paths_, last_point_ |-> last_point_,
   smooth_control_point_ |-> smooth_control_point_,
   current_value_ |-> current_value_,
   triangulation_graph_ |-> triangulation_graph_,
   fill_rule_ |-> fill_rule_, error_tolerance_ |-> error_tolerance_]

\* Faulty variant of startNewPath that keeps the current point value; the
\* property C8_ValueUntilNewSubPath tells it from startNewPath.
startNewPath_keepsValue(P) ==
  [P EXCEPT
     !.paths_ = IF P.paths_ = <<>> \/ Last(P.paths_).points # <<>>
                THEN Append(@, EmptySubPath) ELSE @,
     !.smooth_control_point_ = Origin]

\* Path::startNewPath
startNewPath(P) ==
  [P EXCEPT
     !.paths_ = IF P.paths_ = <<>> \/ Last(P.paths_).points # <<>>
                THEN Append(@, EmptySubPath) ELSE @,
     !.smooth_control_point_ = Origin,
     !.current_value_ = 0]

\* Path::currentPath: the Path after the call; the reference it returns is
\* the last sub-path of that Path
currentPath(P) ==
  IF P.paths_ = <<>> \/ Last(P.paths_).closed
  THEN [P EXCEPT !.paths_ = Append(@, EmptySubPath)]
  ELSE P

back(P) == Last(P.paths_)

\* Path::addPoint
addPoint(P, point) ==
  LET Q == currentPath(P)
      n == Len(Q.paths_)
  IN IF back(Q).points # <<>> /\ point = Last(back(Q).points)
     THEN Q
     ELSE [Q EXCEPT
             !.triangulation_graph_ = NoGraph,
             !.last_point_ = point,
             !.paths_[n].points = Append(@, point),
             !.paths_[n].values = Append(@, Q.current_value_)]
\* Faulty variant of moveTo that begins the sub-path but does not move the
\* current point; the property C6_MoveToBeginsSubPath tells it from moveTo.
moveTo_keepsLastPoint(P, point, relative) ==
  LET P1 == IF P.paths_ # <<>> /\ Last(P.paths_).points # <<>>
            THEN [P EXCEPT !.paths_ = Append(@, EmptySubPath),
                           !.current_value_ = 0]
            ELSE P
  IN [P1 EXCEPT !.smooth_control_point_ = Origin]

\* Path::moveTo
moveTo(P, point, relative) ==
  LET P1 == IF P.paths_ # <<>> /\ back(P).points # <<>>
            THEN startNewPath(P) ELSE P
      pt == IF relative THEN PAdd(point, P1.last_point_) ELSE point
  IN [P1 EXCEPT !.last_point_ = pt, !.smooth_control_point_ = Origin]

\* Path::lineTo
lineTo(P, point, relative) ==
  LET P1 == currentPath(P)
      P2 == IF back(P1).points = <<>> THEN addPoint(P1, P1.last_point_) ELSE P1
      pt == IF relative THEN PAdd(point, P2.last_point_) ELSE point
      P3 == addPoint(P2, pt)
  IN [P3 EXCEPT !.smooth_control_point_ = Origin]

\* Path::verticalTo
verticalTo(P, y, relative) ==
  LET y1 == IF relative THEN y + P.last_point_[2] ELSE y
      P1 == lineTo(P, Pt(P.last_point_[1], y1), FALSE)
  IN [P1 EXCEPT !.smooth_control_point_ = Origin]

\* Path::horizontalTo
horizontalTo(P, x, relative) ==
  LET x1 == IF relative THEN x + P.last_point_[1] ELSE x
      P1 == lineTo(P, Pt(x1, P.last_point_[2]), FALSE)
  IN [P1 EXCEPT !.smooth_control_point_ = Origin]
\* Faulty variant of the snap test of close() that accepts only an exact
\* match; the property C4_CloseContract tells it from closeSnaps.
closeSnaps_exactOnly(front, last) == FALSE

\* the comparison of Path::close: squareMagnitude() < kCloseEpsilon. The
\* squared distance is an integer n of squared grid steps, and
\* n * 2^-(2 * GridBits) < kCloseEpsilonNum / 10^6 exactly when n is below
\* kCloseEpsilonNum * 2^(2 * GridBits) / 10^6 rounded up
closeSnaps(front, last) ==
  squareMagnitude(PSub(front, last))
    < (kCloseEpsilonNum * 2^(2 * GridBits) + 999999) \div 1000000

\* Faulty variant of close() whose snap moves the last point and leaves the
\* current point where it was; the property C25_CloseReturnsToFirstPoint tells
\* it from close.
close_snapKeepsCurrent(P) ==
  IF P.paths_ = <<>> \/ back(P).points = <<>>
  THEN P
  ELSE LET front == back(P).points[1]
           last == Last(back(P).points)
           n == Len(P.paths_)
           m == Len(back(P).points)
           P1 == IF closeSnaps(front, last)
                 THEN [P EXCEPT !.paths_[n].points[m] = front]
                 ELSE IF front # last THEN addPoint(P, front) ELSE P
           P2 == currentPath(P1)
       IN [P2 EXCEPT !.paths_[Len(P2.paths_)].closed = TRUE]

\* Path::close
close(P) ==
  IF P.paths_ = <<>> \/ back(P).points = <<>>
  THEN P
  ELSE LET front == back(P).points[1]
           last == Last(back(P).points)
           n == Len(P.paths_)
           m == Len(back(P).points)
           P1 == IF closeSnaps(front, last)
                 THEN [P EXCEPT !.paths_[n].points[m] = front,
                                !.last_point_ = front]
                 ELSE IF front # last THEN addPoint(P, front) ELSE P
           P2 == currentPath(P1)
       IN [P2 EXCEPT !.paths_[Len(P2.paths_)].closed = TRUE]


---------------------------------------------------------------------------
(* Curve flattening *)

\* 25 * (a / ll) <= tol * tol for integers a >= 0 and ll > 0, computed from
\* the quotient and remainder of a by ll so that no product leaves 32 bits
ratioWithin(a, ll, tol) ==
  LET q == a \div ll
      r == a % ll
  IN IF 25 * q + 25 <= tol * tol THEN TRUE
     ELSE IF 25 * q > tol * tol THEN FALSE
     ELSE 25 * r <= (tol * tol - 25 * q) * ll

\* the test of Path::recurseBezierTo on one control point:
\* (resolution_matrix_ * deltaFromLine(point, from, to)).squareMagnitude()
\*   <= error_tolerance_ * error_tolerance_
\* with the identity resolution matrix. deltaFromLine clamps the projection
\* parameter t to [0, 1]; between the ends the squared distance is
\* cross^2 / |line|^2. One grid step is 5 tolerance steps.
deltaWithin(point, line_from, line_to, tol) ==
  LET line_delta == PSub(line_to, line_from)
      point_delta == PSub(point, line_from)
      d == Dot(point_delta, line_delta)
      ll == Dot(line_delta, line_delta)
  IN IF line_from = line_to \/ d <= 0
     THEN 25 * squareMagnitude(point_delta) <= tol * tol
     ELSE IF d >= ll
          THEN 25 * squareMagnitude(PSub(point, line_to)) <= tol * tol
          ELSE ratioWithin(Cross(point_delta, line_delta)
                             * Cross(point_delta, line_delta), ll, tol)

isFlat(from, control1, control2, to, tol) ==
  deltaWithin(control1, from, to, tol) /\ deltaWithin(control2, from, to, tol)

Even(p) == p[1] % 2 = 0 /\ p[2] % 2 = 0
Half(p) == <<p[1] \div 2, p[2] \div 2>>
Thirds(p) == p[1] % 3 = 0 /\ p[2] % 3 = 0
TwoThirds(p) == <<(2 * p[1]) \div 3, (2 * p[2]) \div 3>>

\* Path::recurseBezierTo
RECURSIVE recurseBezierTo(_, _, _, _, _)
recurseBezierTo(P, from, control1, control2, to) ==
  IF isFlat(from, control1, control2, to, P.error_tolerance_)
  THEN addPoint(P, to)
  ELSE LET mid1 == Half(PAdd(from, control1))
           mid2 == Half(PAdd(control1, control2))
           mid3 == Half(PAdd(control2, to))
           midmid1 == Half(PAdd(mid1, mid2))
           midmid2 == Half(PAdd(mid2, mid3))
           break_point == Half(PAdd(midmid1, midmid2))
       IN recurseBezierTo(recurseBezierTo(P, from, mid1, midmid1, break_point),
                          break_point, midmid2, mid3, to)

\* the inputs of recurseBezierTo the grid represents: every midpoint of the
\* subdivision is a grid point and the recursion ends within depth levels
RECURSIVE bezierOnGrid(_, _, _, _, _, _)
bezierOnGrid(from, control1, control2, to, tol, depth) ==
  \/ isFlat(from, control1, control2, to, tol)
  \/ /\ depth > 0
     /\ Even(PAdd(from, control1)) /\ Even(PAdd(control1, control2))
     /\ Even(PAdd(control2, to))
     /\ LET mid1 == Half(PAdd(from, control1))
            mid2 == Half(PAdd(control1, control2))
            mid3 == Half(PAdd(control2, to))
        IN /\ Even(PAdd(mid1, mid2)) /\ Even(PAdd(mid2, mid3))
           /\ LET midmid1 == Half(PAdd(mid1, mid2))
                  midmid2 == Half(PAdd(mid2, mid3))
              IN /\ Even(PAdd(midmid1, midmid2))
                 /\ bezierOnGrid(from, mid1, midmid1,
                                 Half(PAdd(midmid1, midmid2)), tol, depth - 1)
                 /\ bezierOnGrid(Half(PAdd(midmid1, midmid2)), midmid2, mid3,
                                 to, tol, depth - 1)

\* Path::quadraticTo
quadraticTo(P, control, end, relative) ==
  LET P0 == currentPath(P)
      P1 == IF back(P0).points = <<>> THEN addPoint(P0, P0.last_point_) ELSE P0
      from == P1.last_point_
      ctl == IF relative THEN PAdd(control, from) ELSE control
      e == IF relative THEN PAdd(end, from) ELSE end
      control1 == PAdd(from, TwoThirds(PSub(ctl, from)))
      control2 == PAdd(e, TwoThirds(PSub(ctl, e)))
      P2 == [P1 EXCEPT !.smooth_control_point_ = PAdd(e, PSub(e, ctl))]
  IN recurseBezierTo(P2, from, control1, control2, e)

\* Path::smoothQuadraticTo
smoothQuadraticTo(P, end, relative) ==
  LET e == IF relative THEN PAdd(end, P.last_point_) ELSE end
  IN quadraticTo(P, P.smooth_control_point_, e, FALSE)

\* Path::bezierTo
bezierTo(P, control1, control2, end, relative) ==
  LET P0 == currentPath(P)
      P1 == IF back(P0).points = <<>> THEN addPoint(P0, P0.last_point_) ELSE P0
      from == P1.last_point_
      c1 == IF relative THEN PAdd(control1, from) ELSE control1
      c2 == IF relative THEN PAdd(control2, from) ELSE control2
      e == IF relative THEN PAdd(end, from) ELSE end
      P2 == recurseBezierTo(P1, from, c1, c2, e)
  IN [P2 EXCEPT !.smooth_control_point_ = PAdd(e, PSub(e, c2))]

\* Path::smoothBezierTo
smoothBezierTo(P, end_control, end, relative) ==
  LET ec == IF relative THEN PAdd(end_control, P.last_point_) ELSE end_control
      e == IF relative THEN PAdd(end, P.last_point_) ELSE end
  IN bezierTo(P, P.smooth_control_point_, ec, e, FALSE)

---------------------------------------------------------------------------
(* Whole-path operations *)

Reverse(s) == [i \in 1..Len(s) |-> s[Len(s) + 1 - i]]

\* Path::scale
scale(P, mult) ==
  [P EXCEPT !.paths_ =
     [k \in 1..Len(@) |->
        [@[k] EXCEPT !.points = [i \in 1..Len(@) |-> PMul(@[i], mult)]]]]

\* Path::translate
translate(P, offset) ==
  [P EXCEPT !.paths_ =
     [k \in 1..Len(@) |->
        [@[k] EXCEPT !.points = [i \in 1..Len(@) |-> PAdd(@[i], offset)]]]]

\* Path::rotate by a multiple of a quarter turn: cs[1] and cs[2] are the
\* integers that cosf(angle) and sinf(angle) differ from by less than 2^-22,
\* and the rotated points are taken at the grid points they are next to
rotate(P, cs) ==
  [P EXCEPT !.paths_ =
     [k \in 1..Len(@) |->
        [@[k] EXCEPT !.points =
           [i \in 1..Len(@) |->
              <<cs[1] * @[i][1] + cs[2] * @[i][2],
                (-cs[2]) * @[i][1] + cs[1] * @[i][2]>>]]]]

\* Transform * Point: an affine map with matrix rows (a b), (c d) and
\* translation (tx ty)
transformPoint(T, p) ==
  <<T.a * p[1] + T.b * p[2] + T.tx, T.c * p[1] + T.d * p[2] + T.ty>>

\* Path::transform
transform(P, T) ==
  [P EXCEPT !.paths_ =
     [k \in 1..Len(@) |->
        [@[k] EXCEPT !.points =
           [i \in 1..Len(@) |-> transformPoint(T, @[i])]]]]

\* Path::reverse
reverse(P) ==
  [P EXCEPT !.paths_ =
     [i \in 1..Len(@) |->
        [@[i] EXCEPT !.points = Reverse(@), !.values = Reverse(@)]]]

\* Path::clear
clear(P) ==
  [P EXCEPT !.paths_ = <<>>, !.last_point_ = Origin,
            !.triangulation_graph_ = NoGraph]

\* Path::setFillRule
setFillRule(P, fill_rule) == [P EXCEPT !.fill_rule_ = fill_rule]

\* Path::setPointValue
setPointValue(P, value) == [P EXCEPT !.current_value_ = value]

\* Faulty variant of setErrorTolerance without the guard on the sign; the
\* property C7_RejectedOrAsserted tells it from setErrorTolerance.
setErrorTolerance_unguarded(P, tolerance) ==
  [P EXCEPT !.error_tolerance_ = tolerance]

\* Path::setErrorTolerance past its VISAGE_ASSERT
setErrorTolerance(P, tolerance) ==
  IF tolerance > 0 THEN [P EXCEPT !.error_tolerance_ = tolerance] ELSE P

\* A pointer is the address of the graph whose storage it refers to, and
\* nullptr is 0. An iterator of a vector is the address of the graph whose
\* ScanLine holds the vector, and nullptr when the vector has no buffer.
nullptr == 0

\* ScanLine::end of the ScanLine that the graph at address owns
areasEnd(scan_line, address) == IF scan_line.capacity THEN address ELSE nullptr

\* ScanLine::setGraph
setGraph(scan_line, graph) == [scan_line EXCEPT !.graph_ = graph]

\* ScanLine(TriangulationGraph* graph) with the default member initializers:
\* areas_ is the number of areas, capacity tells whether areas_ has a buffer
newScanLine(graph) ==
  setGraph([graph_ |-> nullptr, sorted_indices_ |-> nullptr, areas_ |-> 0,
            capacity |-> FALSE, last_position1_ |-> nullptr,
            last_position2_ |-> nullptr], graph)

\* TriangulationGraph::sortedIndices of the graph at address: a pointer to the
\* sorted_indices_ vector of that graph
sortedIndices(address) == address

\* ScanLine::reset of the ScanLine that the graph at address owns
reset(scan_line, address) ==
  [scan_line EXCEPT
     !.sorted_indices_ = sortedIndices(scan_line.graph_),
     !.areas_ = 0,
     !.last_position1_ = areasEnd(scan_line, address),
     !.last_position2_ = areasEnd(scan_line, address)]

\* the implicit copy constructor of ScanLine: every member is copied, the
\* pointers and the iterators as they are, and the copy of areas_ allocates a
\* buffer only for the areas it holds
copyScanLine(other) == [other EXCEPT !.capacity = other.areas_ > 0]

\* TriangulationGraph(const TriangulationGraph& other), the copy being
\* allocated at address
copyTriangulationGraph(other, address) ==
  [address |-> address, points_ |-> other.points_,
   scan_line_ |-> setGraph(copyScanLine(other.scan_line_), address)]

\* the copy constructor and the copy assignment of clone_ptr
clone_ptr(p_, address) ==
  IF p_ # NoGraph THEN <<copyTriangulationGraph(p_[1], address)>> ELSE NoGraph

\* Path(const Path& other) and Path::operator=, both defaulted
copyPath(other, address) ==
  [other EXCEPT !.triangulation_graph_ = clone_ptr(@, address)]

\* TriangulationGraph::TriangulationGraph(const Path*), allocated at address:
\* every point of every sub-path becomes a vertex of the graph
newTriangulationGraph(P, address) ==
  [address |-> address, points_ |-> allPoints(P.paths_),
   scan_line_ |-> newScanLine(address)]

\* Path::triangulationGraph, a new graph being allocated at address
triangulationGraph(P, address) ==
  IF P.triangulation_graph_ = NoGraph
  THEN [P EXCEPT !.triangulation_graph_ = <<newTriangulationGraph(P, address)>>]
  ELSE P

---------------------------------------------------------------------------
(* Arguments of the calls *)

InPoints == {<<0, 0>>, <<1, 0>>, <<24, 0>>}
\* offsets of the relative calls
InRelative == {<<24, 0>>}
\* (point, relative) arguments
InTargets ==
  {<<p, FALSE>> : p \in InPoints} \cup {<<p, TRUE>> : p \in InRelative}
InControls == {<<0, 24>>}
\* the absolute targets that are far from each other
FarTargets == {<<<<0, 0>>, FALSE>>, <<<<0, 12>>, FALSE>>}
\* (coordinate, relative) arguments of verticalTo and horizontalTo
InScalars == {<<24, FALSE>>, <<0, TRUE>>}
InValues == {1, 2}
InTolerances == {-5, 0, 20}
InMults == {2}
InOffsets == {<<12, 0>>}
\* cosine and sine of a quarter turn
InAngles == {<<0, 1>>}
\* a shear
InTransforms == {[a |-> 1, b |-> 1, c |-> 0, d |-> 1, tx |-> 0, ty |-> 0]}
\* the deepest subdivision of one curve call
MaxBezierDepth == 1

Fits(P) ==
  /\ Len(P.paths_) <= MaxSubPaths
  /\ numPointsOf(P.paths_) <= MaxPoints
  /\ \A k \in 1..Len(P.paths_) :
       \A i \in 1..Len(P.paths_[k].points) : InBox(P.paths_[k].points[i])
  /\ InBox(P.last_point_)
  /\ InBox(P.smooth_control_point_)

Set(P) ==
  /\ paths_' = P.paths_
  /\ last_point_' = P.last_point_
  /\ smooth_control_point_' = P.smooth_control_point_
  /\ current_value_' = P.current_value_
  /\ triangulation_graph_' = P.triangulation_graph_
  /\ fill_rule_' = P.fill_rule_
  /\ error_tolerance_' = P.error_tolerance_

Call(op) == [op |-> op, arg |-> <<>>]
History == UNCHANGED <<ndebug, aborted, set_value, moved_since_set, num_transforms,
                         objects,
                         next_address, convex_points, triangulation, otherObjects>>

\* the curve calls the grid represents
quadraticOnGrid(P, control, end, relative) ==
  LET from == P.last_point_
      ctl == IF relative THEN PAdd(control, from) ELSE control
      e == IF relative THEN PAdd(end, from) ELSE end
  IN /\ Thirds(PSub(ctl, from)) /\ Thirds(PSub(ctl, e))
     /\ bezierOnGrid(from, PAdd(from, TwoThirds(PSub(ctl, from))),
                     PAdd(e, TwoThirds(PSub(ctl, e))), e,
                     P.error_tolerance_, MaxBezierDepth)

cubicOnGrid(P, control1, control2, end, relative) ==
  LET from == P.last_point_
      c1 == IF relative THEN PAdd(control1, from) ELSE control1
      c2 == IF relative THEN PAdd(control2, from) ELSE control2
      e == IF relative THEN PAdd(end, from) ELSE end
  IN bezierOnGrid(from, c1, c2, e, P.error_tolerance_, MaxBezierDepth)

---------------------------------------------------------------------------
(* The public calls *)

\* Path() = default, with the default member initializers
DefaultPath ==
  [paths_ |-> <<>>, last_point_ |-> Origin, smooth_control_point_ |-> Origin,
   current_value_ |-> 0, triangulation_graph_ |-> NoGraph,
   fill_rule_ |-> "EvenOdd", error_tolerance_ |-> kDefaultErrorTolerance]

PathNames == {"original", "copy"}

NewPath ==
  /\ paths_ = <<>>
  /\ last_point_ = Origin
  /\ smooth_control_point_ = Origin
  /\ current_value_ = 0
  /\ triangulation_graph_ = NoGraph
  /\ fill_rule_ = "EvenOdd"
  /\ error_tolerance_ = kDefaultErrorTolerance
  /\ aborted = FALSE
  /\ last_call = Call("Path")
  /\ set_value = NoValue
  /\ moved_since_set = FALSE
  /\ num_transforms = 0
  /\ objects = [name \in PathNames |-> DefaultPath]
  /\ next_address = 1
  /\ convex_points = 0
  /\ triangulation = NoValue
  /\ command_list = [commands |-> <<>>, start |-> Origin, current |-> Origin]
  /\ sorted_indices_ = <<>>
  /\ intersection_events_ = <<>>
  /\ next_intersection_ = -1
  /\ filled_region = NoValue
  /\ other_path = DefaultPath
  /\ orientation_result = DZero
  /\ areas_ = <<>>
  /\ aliases_ = <<>>
  /\ current_index_ = 0
  /\ edit_positions_ = <<>>
  /\ next_edge_ = [index \in 0..(MaxIndices - 1) |-> (index + 1) % MaxIndices]
  /\ alias_call = NoValue
  /\ pairing = NoPairing

\* a build with NDEBUG
Init == NewPath /\ ndebug = TRUE

\* either build: with NDEBUG, or without it (VISAGE_ASSERT is debugAssert)
InitAnyBuild == NewPath /\ ndebug \in BOOLEAN

MoveTo(targets) ==
  \E target \in targets :
    LET point == target[1]
        relative == target[2]
        Q == moveTo(Self, point, relative)
    IN /\ ~aborted
       /\ Fits(Q)
       /\ Set(Q)
       /\ last_call' =
            [op |-> "moveTo",
             arg |-> IF relative THEN PAdd(point, last_point_) ELSE point]
       /\ moved_since_set' =
            (moved_since_set \/ (paths_ # <<>> /\ Last(paths_).points # <<>>))
       /\ UNCHANGED <<ndebug, aborted, set_value, num_transforms, objects,
                         next_address, convex_points, triangulation, otherObjects>>

LineTo(targets) ==
  \E target \in targets :
    LET Q == lineTo(Self, target[1], target[2])
    IN ~aborted /\ Fits(Q) /\ Set(Q) /\ last_call' = Call("lineTo") /\ History

VerticalTo(scalars) ==
  \E y \in scalars :
    LET Q == verticalTo(Self, y[1], y[2])
    IN ~aborted /\ Fits(Q) /\ Set(Q) /\ last_call' = Call("verticalTo") /\ History

HorizontalTo(scalars) ==
  \E x \in scalars :
    LET Q == horizontalTo(Self, x[1], x[2])
    IN ~aborted /\ Fits(Q) /\ Set(Q) /\ last_call' = Call("horizontalTo") /\ History

\* the history keeps the size and the last point of the sub-path close() found
\* and, of a curve call, the first and the last control point it passed on (in
\* absolute coordinates)
Close ==
  LET Q == close(Self)
  IN /\ ~aborted /\ Fits(Q) /\ Set(Q)
     /\ last_call' =
          [op |-> "close",
           arg |-> IF paths_ = <<>> \/ Last(paths_).points = <<>>
                   THEN <<>>
                   ELSE <<Len(Last(paths_).points), Last(Last(paths_).points)>>]
     /\ History

QuadraticTo(controls, targets) ==
  \E control \in controls, target \in targets :
    LET end == target[1]
        relative == target[2]
        Q == quadraticTo(Self, control, end, relative)
    IN /\ ~aborted
       /\ quadraticOnGrid(Self, control, end, relative)
       /\ Fits(Q) /\ Set(Q) /\ History
       /\ last_call' =
            [op |-> "quadraticTo",
             arg |-> LET ctl == IF relative THEN PAdd(control, last_point_)
                                ELSE control
                     IN <<ctl, ctl>>]

SmoothQuadraticTo(targets) ==
  \E target \in targets :
    LET end == target[1]
        relative == target[2]
        Q == smoothQuadraticTo(Self, end, relative)
        e == IF relative THEN PAdd(end, last_point_) ELSE end
    IN /\ ~aborted
       /\ quadraticOnGrid(Self, smooth_control_point_, e, FALSE)
       /\ Fits(Q) /\ Set(Q) /\ History
       /\ last_call' =
            [op |-> "smoothQuadraticTo",
             arg |-> <<smooth_control_point_, smooth_control_point_>>]

BezierTo(controls, targets) ==
  \E control1 \in controls, control2 \in controls, target \in targets :
    LET end == target[1]
        relative == target[2]
        Q == bezierTo(Self, control1, control2, end, relative)
    IN /\ ~aborted
       /\ cubicOnGrid(Self, control1, control2, end, relative)
       /\ Fits(Q) /\ Set(Q) /\ History
       /\ last_call' =
            [op |-> "bezierTo",
             arg |-> IF relative
                     THEN <<PAdd(control1, last_point_), PAdd(control2, last_point_)>>
                     ELSE <<control1, control2>>]

SmoothBezierTo(controls, targets) ==
  \E end_control \in controls, target \in targets :
    LET end == target[1]
        relative == target[2]
        Q == smoothBezierTo(Self, end_control, end, relative)
        ec == IF relative THEN PAdd(end_control, last_point_) ELSE end_control
        e == IF relative THEN PAdd(end, last_point_) ELSE end
    IN /\ ~aborted
       /\ cubicOnGrid(Self, smooth_control_point_, ec, e, FALSE)
       /\ Fits(Q) /\ Set(Q) /\ History
       /\ last_call' =
            [op |-> "smoothBezierTo", arg |-> <<smooth_control_point_, ec>>]

Clear ==
  ~aborted /\ Set(clear(Self)) /\ last_call' = Call("clear") /\ History

SetPointValue ==
  \E value \in InValues :
    /\ ~aborted
    /\ Set(setPointValue(Self, value))
    /\ last_call' = Call("setPointValue")
    /\ set_value' = <<value>>
    /\ moved_since_set' = FALSE
    /\ UNCHANGED <<ndebug, aborted, num_transforms, objects,
                         next_address, convex_points, triangulation, otherObjects>>

SetFillRule ==
  \E fill_rule \in FillRules :
    /\ ~aborted
    /\ Set(setFillRule(Self, fill_rule))
    /\ last_call' = Call("setFillRule") /\ History

\* Path::setErrorTolerance: VISAGE_ASSERT(tolerance > 0.0f) is debugAssert in a
\* build without NDEBUG, which terminates the program on a false condition,
\* and expands to nothing in a build with NDEBUG
SetErrorTolerance ==
  \E tolerance \in InTolerances :
    /\ ~aborted
    /\ last_call' = [op |-> "setErrorTolerance", arg |-> <<tolerance>>]
    /\ IF ~ndebug /\ ~(tolerance > 0)
       THEN /\ aborted' = TRUE
            /\ Set(Self)
            /\ UNCHANGED <<ndebug, set_value, moved_since_set, num_transforms,
                         objects,
                         next_address, convex_points, triangulation, otherObjects>>
       ELSE /\ Set(setErrorTolerance(Self, tolerance))
            /\ History

Transformed(Q, op) ==
  /\ ~aborted
  /\ num_transforms < MaxTransforms
  /\ Fits(Q) /\ Set(Q)
  /\ last_call' = Call(op)
  /\ num_transforms' = num_transforms + 1
  /\ UNCHANGED <<ndebug, aborted, set_value, moved_since_set, objects,
                         next_address, convex_points, triangulation, otherObjects>>

Scale == \E mult \in InMults : Transformed(scale(Self, mult), "scale")
Translate == \E offset \in InOffsets : Transformed(translate(Self, offset), "translate")
Rotate == \E cs \in InAngles : Transformed(rotate(Self, cs), "rotate")
TransformBy == \E T \in InTransforms : Transformed(transform(Self, T), "transform")
ReversePath == Transformed(reverse(Self), "reverse")

\* a public geometry query (triangulate, combine, offset, stroke, ...) asking
\* for the cached graph
GeometryQuery ==
  ~aborted /\ Set(triangulationGraph(Self, 1)) /\ last_call' = Call("query") /\ History

---------------------------------------------------------------------------
(* Specifications *)

\* building a path, clearing it and querying its geometry
Next ==
  \/ MoveTo(InTargets) \/ LineTo(InTargets)
  \/ VerticalTo(InScalars) \/ HorizontalTo(InScalars) \/ Close
  \/ QuadraticTo(InControls, InTargets) \/ SmoothQuadraticTo(InTargets)
  \/ BezierTo(InControls, InTargets) \/ SmoothBezierTo(InControls, InTargets)
  \/ Clear \/ GeometryQuery

Spec == Init /\ [][Next]_vars

\* building a path whose points carry values
NextValue ==
  \/ SetPointValue \/ MoveTo(FarTargets) \/ LineTo(FarTargets) \/ Close
  \/ QuadraticTo(InControls, FarTargets) \/ Clear

SpecValue == Init /\ [][NextValue]_vars

\* flattening curves under a changing error tolerance, in either build
NextTolerance ==
  \/ SetErrorTolerance \/ MoveTo(InTargets) \/ LineTo(InTargets)
  \/ QuadraticTo(InControls, InTargets) \/ SmoothQuadraticTo(InTargets)
  \/ BezierTo(InControls, InTargets) \/ SmoothBezierTo(InControls, InTargets)
  \/ Close

SpecTolerance == InitAnyBuild /\ [][NextTolerance]_vars

\* transforming a path and changing its fill rule between geometry queries
NextGeometry ==
  \/ MoveTo(FarTargets) \/ LineTo(FarTargets) \/ Close
  \/ Scale \/ Translate \/ Rotate \/ TransformBy \/ ReversePath
  \/ SetFillRule \/ GeometryQuery

SpecGeometry == Init /\ [][NextGeometry]_vars

---------------------------------------------------------------------------
(* Properties of the path builder *)

DrawOps ==
  {"lineTo", "verticalTo", "horizontalTo", "quadraticTo", "smoothQuadraticTo",
   "bezierTo", "smoothBezierTo"}
EditOps == DrawOps \cup {"close"}
ChangeOps == {"scale", "translate", "rotate", "transform", "reverse", "setFillRule"}

PathFields ==
  <<paths_, last_point_, smooth_control_point_, current_value_,
    triangulation_graph_, fill_rule_, error_tolerance_>>

\* some sub-path of new differs from what it was in old (a sub-path that did
\* not exist counts as empty and open)
ContentsChanged(old, new) ==
  \E k \in 1..Len(new) :
    IF k <= Len(old) THEN new[k] # old[k] ELSE new[k] # EmptySubPath

\* C1: an edit call (a line or curve command, or close) that changes the
\* contents of a sub-path (its points, its values or its closed flag) leaves
\* the Path with no cached TriangulationGraph.
C1_EditInvalidatesGraph ==
  [][(last_call'.op \in EditOps /\ ContentsChanged(paths_, paths_'))
       => triangulation_graph_' = NoGraph]_vars

\* C2: scale, translate, rotate, transform, reverse or setFillRule that changes
\* the points or the fill rule leaves the Path with no cached
\* TriangulationGraph, so that the next query builds a new one.
C2_ChangeDiscardsGraph ==
  [][(last_call'.op \in ChangeOps
        /\ (paths_' # paths_ \/ fill_rule_' # fill_rule_))
       => triangulation_graph_' = NoGraph]_vars

\* 1e-6 lies between 4 and 5 squared grid steps (4 * 2^-22 < 1e-6 < 5 * 2^-22)
WithinCloseEpsilon(a, b) == squareMagnitude(PSub(a, b)) <= 4

\* C4: close() on a sub-path with at least one point leaves that sub-path
\* closed with its first and last point equal, keeps all its points but the
\* last, appends at most one point, and appends none when first and last point
\* are within the close epsilon; close() with no sub-path or an empty last
\* sub-path changes nothing.
C4_CloseContract ==
  [][last_call'.op = "close" =>
       IF paths_ = <<>> \/ Last(paths_).points = <<>>
       THEN UNCHANGED PathFields
       ELSE LET n == Len(paths_)
                old == paths_[n].points
                new == paths_'[n].points
            IN /\ Len(paths_') >= n
               /\ \A k \in 1..(n - 1) : paths_'[k] = paths_[k]
               /\ paths_'[n].closed
               /\ new[1] = new[Len(new)]
               /\ Len(old) <= Len(new) /\ Len(new) <= Len(old) + 1
               /\ \A i \in 1..(Len(old) - 1) : new[i] = old[i]
               /\ WithinCloseEpsilon(old[1], old[Len(old)])
                    => Len(new) = Len(old)]_vars

\* close() has overwritten the last point of a three-point sub-path, which
\* was near but not at the first point
C4_Witness ==
  /\ last_call.op = "close"
  /\ last_call.arg # <<>>
  /\ last_call.arg[1] = 3
  /\ paths_ # <<>>
  /\ Len(Last(paths_).points) = 3
  /\ Last(paths_).closed
  /\ last_call.arg[2] # Last(paths_).points[1]
  /\ Last(paths_).points[3] = Last(paths_).points[1]

\* C5: every sub-path whose closed flag is set has at least one point, has
\* its first point equal to its last point, and has as many values as points.
C5_ClosedSubPathInvariant ==
  \A k \in 1..Len(paths_) :
    paths_[k].closed =>
      /\ Len(paths_[k].points) >= 1
      /\ paths_[k].points[1] = Last(paths_[k].points)
      /\ Len(paths_[k].values) = Len(paths_[k].points)

\* C6: moveTo while the last sub-path has a point appends exactly one empty
\* open sub-path and leaves the others as they were; moveTo with no sub-path
\* or an empty last sub-path leaves the sub-paths as they were; and the
\* sub-path built by the draw command that follows a moveTo starts at the
\* moveTo point.
C6_MoveToBeginsSubPath ==
  [][/\ last_call'.op = "moveTo" =>
          IF paths_ # <<>> /\ Last(paths_).points # <<>>
          THEN paths_' = Append(paths_, EmptySubPath)
          ELSE paths_' = paths_
     /\ (last_call.op = "moveTo" /\ last_call'.op \in DrawOps) =>
          /\ paths_' # <<>>
          /\ Last(paths_').points # <<>>
          /\ Last(paths_').points[1] = last_call.arg
          /\ \A k \in 1..Len(paths_) :
               paths_[k].points # <<>> => paths_'[k] = paths_[k]]_vars

\* a draw command has built a second sub-path after an open first one, which
\* only a moveTo in between makes possible
C6_Witness ==
  /\ last_call.op \in DrawOps
  /\ Len(paths_) = 2
  /\ ~paths_[1].closed
  /\ Len(paths_[1].points) = 1
  /\ Len(paths_[2].points) = 2
  /\ paths_[2].points[1] = <<1, 0>>

\* C7 as stated: setErrorTolerance(t) with t <= 0 leaves the Path as it was
\* and does not abort, and the error tolerance is always positive.
C7_RejectedWithoutAbort ==
  /\ [](error_tolerance_ > 0)
  /\ [][(last_call'.op = "setErrorTolerance" /\ last_call'.arg[1] <= 0)
          => (UNCHANGED PathFields /\ ~aborted')]_vars

\* C7 amended: setErrorTolerance(t) with t <= 0 leaves the Path as it was; it
\* returns normally in a build with NDEBUG and terminates the program (its
\* VISAGE_ASSERT fails) in a build without; the error tolerance is always
\* positive.
C7_RejectedOrAsserted ==
  /\ [](error_tolerance_ > 0)
  /\ [][(last_call'.op = "setErrorTolerance" /\ last_call'.arg[1] <= 0)
          => (UNCHANGED PathFields /\ aborted' = ~ndebug)]_vars

\* a build with NDEBUG has ignored a non-positive tolerance given to a Path
\* that holds points and a tolerance other than the default
C7_Witness ==
  /\ last_call.op = "setErrorTolerance"
  /\ last_call.arg[1] <= 0
  /\ ndebug /\ ~aborted
  /\ paths_ # <<>>
  /\ error_tolerance_ # kDefaultErrorTolerance

\* the values a step appends are all v
AppendedValuesAre(v) ==
  LET old == allValues(paths_)
      new == allValues(paths_')
  IN Len(new) > Len(old) => \A i \in (Len(old) + 1)..Len(new) : new[i] = v

---------------------------------------------------------------------------
(* Two Path objects, one assigned to the other *)

MaxGraphs == 4
MaxAreas == 1

FitsObject(P) == Fits(P) /\ Len(P.paths_) <= 1

PathState ==
  UNCHANGED <<paths_, last_point_, smooth_control_point_, current_value_,
              triangulation_graph_, fill_rule_, error_tolerance_, ndebug,
              aborted, set_value, moved_since_set, num_transforms,
              convex_points, triangulation, otherObjects>>

\* objects[name].lineTo(point)
ObjectLineTo(name) ==
  \E t \in FarTargets :
    LET Q == lineTo(objects[name], t[1], t[2])
    IN /\ FitsObject(Q)
       /\ objects' = [objects EXCEPT ![name] = Q]
       /\ last_call' = [op |-> "lineTo", arg |-> <<name>>]
       /\ UNCHANGED next_address /\ PathState

\* a geometry query of objects[name], which allocates the graph it caches
ObjectQuery(name) ==
  /\ objects[name].triangulation_graph_ = NoGraph
  /\ next_address <= MaxGraphs
  /\ objects' = [objects EXCEPT ![name] = triangulationGraph(@, next_address)]
  /\ next_address' = next_address + 1
  /\ last_call' = [op |-> "query", arg |-> <<name>>]
  /\ PathState

\* a sweep over the cached graph of objects[name] begins
ScanLineReset(name) ==
  /\ objects[name].triangulation_graph_ # NoGraph
  /\ LET g == objects[name].triangulation_graph_[1]
     IN objects' = [objects EXCEPT ![name].triangulation_graph_[1].scan_line_ =
                                      reset(@, g.address)]
  /\ last_call' = [op |-> "reset", arg |-> <<name>>]
  /\ UNCHANGED next_address /\ PathState

\* the sweep over the cached graph of objects[name] meets the start of an edge
\* and inserts its area
insertArea(scan_line) ==
  [scan_line EXCEPT !.areas_ = @ + 1, !.capacity = TRUE]

ScanLineInsert(name) ==
  /\ objects[name].triangulation_graph_ # NoGraph
  /\ LET g == objects[name].triangulation_graph_[1]
     IN /\ g.scan_line_.sorted_indices_ # nullptr
        /\ g.scan_line_.areas_ < MaxAreas
        /\ Len(g.points_) >= 2
        /\ objects' = [objects EXCEPT ![name].triangulation_graph_[1].scan_line_ =
                                         insertArea(@)]
  /\ last_call' = [op |-> "update", arg |-> <<name>>]
  /\ UNCHANGED next_address /\ PathState

\* objects[dst] = objects[src]
ObjectAssign(dst, src) ==
  /\ dst # src
  /\ next_address <= MaxGraphs
  /\ objects' = [objects EXCEPT ![dst] = copyPath(objects[src], next_address)]
  /\ next_address' =
       IF objects[src].triangulation_graph_ # NoGraph
       THEN next_address + 1 ELSE next_address
  /\ last_call' = [op |-> "operator=", arg |-> <<dst, src>>]
  /\ PathState

NextCopy ==
  \E name \in PathNames :
    \/ ObjectLineTo(name) \/ ObjectQuery(name)
    \/ ScanLineReset(name) \/ ScanLineInsert(name)
    \/ \E src \in PathNames : ObjectAssign(name, src)

SpecCopy == Init /\ [][NextCopy]_vars

\* the pointers and iterators of the graph refer to nothing but the graph
OwnsItsStorage(graph) ==
  /\ graph.scan_line_.graph_ = graph.address
  /\ graph.scan_line_.sorted_indices_ \in {nullptr, graph.address}
  /\ graph.scan_line_.last_position1_ \in {nullptr, graph.address}
  /\ graph.scan_line_.last_position2_ \in {nullptr, graph.address}

\* C3: whenever a Path holds a cached TriangulationGraph, also after it was
\* copied from a Path that held one, the graph is at an address of its own and
\* the graph pointer, the sorted-index pointer and the iterators of its
\* ScanLine refer to nothing but that graph; and a call on one Path leaves
\* the other Path as it was.
C3_CopySharesNothing ==
  /\ \A name \in PathNames :
       objects[name].triangulation_graph_ # NoGraph
         => OwnsItsStorage(objects[name].triangulation_graph_[1])
  /\ \A a, b \in PathNames :
       (a # b /\ objects[a].triangulation_graph_ # NoGraph
              /\ objects[b].triangulation_graph_ # NoGraph)
         => objects[a].triangulation_graph_[1].address
              # objects[b].triangulation_graph_[1].address

---------------------------------------------------------------------------
(* Triangulation of a Path whose only sub-path is a convex polygon. The Path
   is kept as the number of its points, which are all distinct and of which
   no three are on a line. *)

MaxVertices == 65538
\* the width of uint16_t, the type of Triangulation::triangles
IndexBits == 16

\* the conversion of a vertex index, an int, to an element of triangles
uint16_t(index) == index % 2^IndexBits

\* Path::triangulate of a convex polygon with num_points points: every point
\* is a vertex of the graph and a point of the result, ear cutting leaves
\* num_points - 2 triangles, and the vertex with the highest index is a
\* corner of one of them
triangulate(num_points) ==
  [points |-> num_points,
   triangles |-> 3 * (num_points - 2),
   highest |-> uint16_t(num_points - 1)]

\* the lengths of the runs of lineTo calls
InRuns == {1, 1024, 16384}

OnePath ==
  UNCHANGED <<paths_, last_point_, smooth_control_point_, current_value_,
              triangulation_graph_, fill_rule_, error_tolerance_, ndebug,
              aborted, set_value, moved_since_set, num_transforms, objects,
              next_address, otherObjects>>

\* a run of lineTo calls, each to a further corner of the polygon
LineToRun ==
  \E k \in InRuns :
    /\ convex_points + k <= MaxVertices
    /\ convex_points' = convex_points + k
    /\ triangulation' = NoValue
    /\ last_call' = [op |-> "lineTo", arg |-> <<k>>]
    /\ OnePath

Triangulate ==
  /\ convex_points >= 3
  /\ triangulation = NoValue
  /\ triangulation' = <<triangulate(convex_points)>>
  /\ last_call' = Call("triangulate")
  /\ UNCHANGED convex_points /\ OnePath

NextTriangulate == LineToRun \/ Triangulate

SpecTriangulate == Init /\ [][NextTriangulate]_vars

\* C9: in the Triangulation that triangulate() returns every index of the
\* triangles list is below points.size(), points.size() is at most 65536, and
\* every index is stored as the vertex index it stands for (none is reduced
\* modulo 2^16).
C9_IndexBound ==
  triangulation # NoValue =>
    /\ triangulation[1].highest < triangulation[1].points
    /\ triangulation[1].points <= 65536
    /\ triangulation[1].highest = convex_points - 1


---------------------------------------------------------------------------
(* Smooth curve commands *)

SmoothOps == {"smoothQuadraticTo", "smoothBezierTo"}
CurveOps == {"quadraticTo", "smoothQuadraticTo", "bezierTo", "smoothBezierTo"}

\* the curve commands whose last control point a smooth command reflects
SameFamily(op) ==
  IF op = "smoothQuadraticTo" THEN {"quadraticTo", "smoothQuadraticTo"}
  ELSE {"bezierTo", "smoothBezierTo"}

\* the commands after which a smooth command has no control point to reflect:
\* no command at all, moveTo, the line commands, close, and a curve of the
\* other family
NoReflection(op) ==
  {"Path", "moveTo", "lineTo", "horizontalTo", "verticalTo", "close"}
    \cup (CurveOps \ SameFamily(op))

\* the reflection of point about center
Reflect(point, center) == PSub(PMul(center, 2), point)

\* C15: the first control point of smoothQuadraticTo and of smoothBezierTo is
\* the reflection of the last control point of the previous command about the
\* current point when that command was a curve of the same family, and is the
\* current point when it was no such curve (no command at all, moveTo, lineTo,
\* horizontalTo, verticalTo, close, a curve of the other family).
C15_SmoothReflection ==
  [][last_call'.op \in SmoothOps =>
       /\ last_call.op \in SameFamily(last_call'.op) =>
            last_call'.arg[1] = Reflect(last_call.arg[2], last_point_)
       /\ last_call.op \in NoReflection(last_call'.op) =>
            last_call'.arg[1] = last_point_]_vars


---------------------------------------------------------------------------
(* CommandList: the buffer of path commands *)

\* the longest command list
MaxCommands == 4

\* stands for FLT_MAX, the coordinate of a control point a command lacks
FLT_MAX == 2147483647
NoControl == <<FLT_MAX, FLT_MAX>>

kLargeArc == 1
kSweep == 2

\* a Command, by aggregate initialization
Command(type, end, control1, control2, flags) ==
  [type |-> type, end |-> end, control1 |-> control1, control2 |-> control2,
   flags |-> flags]

\* CommandList::adjustPoint
adjustPoint(L, p, relative) == IF relative THEN PAdd(L.current, p) ELSE p

\* Faulty variant of addCommand that appends the command but leaves current
\* alone; the property C16_RelativeToPreviousEnd tells it from addCommand.
addCommand_keepsCurrent(L, command) ==
  [L EXCEPT !.commands = Append(@, command)]
\* CommandList::addCommand
addCommand(L, command) ==
  [L EXCEPT !.current = command.end, !.commands = Append(@, command)]

\* CommandList::moveTo
CommandList_moveTo(L, x, y, relative) ==
  LET M == addCommand(L, Command("M", adjustPoint(L, <<x, y>>, relative),
                                 NoControl, NoControl, 0))
  IN [M EXCEPT !.start = M.current]

\* CommandList::lineTo
CommandList_lineTo(L, x, y, relative) ==
  addCommand(L, Command("L", adjustPoint(L, <<x, y>>, relative),
                        NoControl, NoControl, 0))

\* CommandList::horizontalTo
CommandList_horizontalTo(L, x, relative) ==
  addCommand(L, Command("L", <<IF relative THEN x + L.current[1] ELSE x,
                               L.current[2]>>,
                        NoControl, NoControl, 0))

\* CommandList::verticalTo
CommandList_verticalTo(L, y, relative) ==
  addCommand(L, Command("L", <<L.current[1],
                               IF relative THEN y + L.current[2] ELSE y>>,
                        NoControl, NoControl, 0))

\* CommandList::quadraticTo
CommandList_quadraticTo(L, cx, cy, x, y, relative) ==
  addCommand(L, Command("Q", adjustPoint(L, <<x, y>>, relative),
                        adjustPoint(L, <<cx, cy>>, relative), NoControl, 0))

\* CommandList::smoothQuadraticTo
CommandList_smoothQuadraticTo(L, x, y, relative) ==
  addCommand(L, Command("T", adjustPoint(L, <<x, y>>, relative),
                        NoControl, NoControl, 0))

\* CommandList::bezierTo
CommandList_bezierTo(L, cx1, cy1, cx2, cy2, x, y, relative) ==
  addCommand(L, Command("C", adjustPoint(L, <<x, y>>, relative),
                        adjustPoint(L, <<cx1, cy1>>, relative),
                        adjustPoint(L, <<cx2, cy2>>, relative), 0))

\* CommandList::smoothBezierTo
CommandList_smoothBezierTo(L, cx, cy, x, y, relative) ==
  addCommand(L, Command("S", adjustPoint(L, <<x, y>>, relative),
                        adjustPoint(L, <<cx, cy>>, relative), NoControl, 0))

\* CommandList::arcTo
CommandList_arcTo(L, rx, ry, rotation, large_arc, sweep, x, y, relative) ==
  LET flags == (IF large_arc THEN kLargeArc ELSE 0) + (IF sweep THEN kSweep ELSE 0)
  IN addCommand(L, Command("A", adjustPoint(L, <<x, y>>, relative),
                           <<rx, ry>>, <<rotation, rotation>>, flags))

\* CommandList::close
CommandList_close(L) == addCommand(L, Command("Z", L.start, NoControl, NoControl, 0))

\* the arguments of the commands: the end point, the control points, the
\* radii of an arc
InCommandEnds == {<<1, 2>>}
InCommandControls == {<<3, 1>>}
InRadii == {<<4, 5>>}

\* the history of a command: the call, whether it was relative, and the end
\* point and control points it was given (of horizontalTo and verticalTo, the
\* one coordinate given, the other zero)
Given(op, relative, end, controls) ==
  [op |-> op, arg |-> [relative |-> relative, end |-> end, controls |-> controls]]

\* a call of the CommandList that leaves it as M
Commanded(M, call) ==
  /\ Len(command_list.commands) < MaxCommands
  /\ command_list' = M
  /\ last_call' = call
  /\ UNCHANGED <<pathState, laterObjects, sorted_indices_, intersection_events_,
                 next_intersection_, filled_region, other_path>>

CommandMoveTo ==
  \E p \in InCommandEnds, relative \in BOOLEAN :
    Commanded(CommandList_moveTo(command_list, p[1], p[2], relative),
              Given("M", relative, p, <<>>))

CommandLineTo ==
  \E p \in InCommandEnds, relative \in BOOLEAN :
    Commanded(CommandList_lineTo(command_list, p[1], p[2], relative),
              Given("L", relative, p, <<>>))

CommandHorizontalTo ==
  \E p \in InCommandEnds, relative \in BOOLEAN :
    Commanded(CommandList_horizontalTo(command_list, p[1], relative),
              Given("H", relative, <<p[1], 0>>, <<>>))

CommandVerticalTo ==
  \E p \in InCommandEnds, relative \in BOOLEAN :
    Commanded(CommandList_verticalTo(command_list, p[2], relative),
              Given("V", relative, <<0, p[2]>>, <<>>))

CommandQuadraticTo ==
  \E c \in InCommandControls, p \in InCommandEnds, relative \in BOOLEAN :
    Commanded(CommandList_quadraticTo(command_list, c[1], c[2], p[1], p[2], relative),
              Given("Q", relative, p, <<c>>))

CommandSmoothQuadraticTo ==
  \E p \in InCommandEnds, relative \in BOOLEAN :
    Commanded(CommandList_smoothQuadraticTo(command_list, p[1], p[2], relative),
              Given("T", relative, p, <<>>))

CommandBezierTo ==
  \E c1 \in InCommandControls, c2 \in InCommandEnds, p \in InCommandEnds,
     relative \in BOOLEAN :
    Commanded(CommandList_bezierTo(command_list, c1[1], c1[2], c2[1], c2[2],
                                   p[1], p[2], relative),
              Given("C", relative, p, <<c1, c2>>))

CommandSmoothBezierTo ==
  \E c \in InCommandControls, p \in InCommandEnds, relative \in BOOLEAN :
    Commanded(CommandList_smoothBezierTo(command_list, c[1], c[2], p[1], p[2], relative),
              Given("S", relative, p, <<c>>))

CommandArcTo ==
  \E r \in InRadii, p \in InCommandEnds, relative \in BOOLEAN :
    Commanded(CommandList_arcTo(command_list, r[1], r[2], 0, TRUE, FALSE,
                                p[1], p[2], relative),
              Given("A", relative, p, <<>>))

CommandClose ==
  Commanded(CommandList_close(command_list), Given("Z", FALSE, <<>>, <<>>))

\* filling a command list
NextCommands ==
  \/ CommandMoveTo \/ CommandLineTo \/ CommandHorizontalTo \/ CommandVerticalTo
  \/ CommandQuadraticTo \/ CommandSmoothQuadraticTo \/ CommandBezierTo
  \/ CommandSmoothBezierTo \/ CommandArcTo \/ CommandClose

SpecCommands == Init /\ [][NextCommands]_vars

CommandOps == {"M", "L", "H", "V", "Q", "T", "C", "S", "A", "Z"}

\* the end point of the last command of the list, the origin if there is none
PreviousEnd(commands) ==
  IF commands = <<>> THEN Origin ELSE Last(commands).end

\* the positions of the moveTo commands of the list
MoveTos(commands) == {i \in 1..Len(commands) : commands[i].type = "M"}

\* the control points a command holds, in order
ControlsOf(command) ==
  IF command.type \in {"Q", "S"} THEN <<command.control1>>
  ELSE IF command.type = "C" THEN <<command.control1, command.control2>>
  ELSE <<>>

\* C16: a relative command of a CommandList resolves its end point and its
\* control points against the end point of the previous command (the origin
\* if there is none); close() ends at the point of the most recent moveTo, and
\* the current point is the end point of the command just added, so the next
\* relative command is resolved against it.
C16_RelativeToPreviousEnd ==
  [][last_call'.op \in CommandOps =>
       LET before == command_list.commands
           from == PreviousEnd(before)
           command == Last(command_list'.commands)
           given == last_call'.arg
       IN /\ command_list'.commands = Append(before, command)
          /\ command_list'.current = command.end
          /\ given.relative =>
               /\ command.end = PAdd(from, given.end)
               /\ ControlsOf(command) =
                    [i \in 1..Len(given.controls) |-> PAdd(from, given.controls[i])]
          /\ (last_call'.op = "Z" /\ MoveTos(before) # {}) =>
               command.end =
                 before[CHOOSE i \in MoveTos(before) :
                          \A j \in MoveTos(before) : j <= i].end]_vars

\* a relative lineTo directly after a close() that returned to the start of a
\* sub-path which is neither the origin nor the end of the command before
\* the close
C16_Witness ==
  /\ last_call.op = "L" /\ last_call.arg.relative
  /\ Len(command_list.commands) = 4
  /\ command_list.commands[1].type = "M"
  /\ command_list.commands[1].end # Origin
  /\ command_list.commands[3].type = "Z"
  /\ command_list.commands[3].end # command_list.commands[2].end
  /\ command_list.commands[4].end =
       PAdd(command_list.commands[1].end, last_call.arg.end)


---------------------------------------------------------------------------
(* TriangulationGraph: the sorted vertex index *)


PointTypes == {"None", "Begin", "Continue", "End"}

\* IndexData(i, p, t)
IndexData(i, p, t) == [index |-> i, point |-> p, type |-> t]

\* DPoint::compare: negative, zero or positive as a comes before, equals or
\* comes after b in the order of the sweep (y first, then x)
DPoint_compare(a, b) == IF a[2] # b[2] THEN a[2] - b[2] ELSE a[1] - b[1]

\* Faulty variant of IndexData::operator< whose tie-break on the type only
\* asks whether this entry is an End; the property C19_IndexOrder tells it
\* from IndexData_less.
IndexData_less_endOnly(this, other) ==
  IF this.type # other.type /\ this.type = "None" THEN FALSE
  ELSE IF this.type # other.type /\ other.type = "None" THEN TRUE
  ELSE LET compare == DPoint_compare(this.point, other.point)
       IN IF compare # 0 THEN compare < 0
          ELSE IF this.type # other.type THEN this.type = "End"
          ELSE this.index < other.index
\* IndexData::operator<
IndexData_less(this, other) ==
  IF this.type # other.type /\ this.type = "None" THEN FALSE
  ELSE IF this.type # other.type /\ other.type = "None" THEN TRUE
  ELSE LET compare == DPoint_compare(this.point, other.point)
       IN IF compare # 0 THEN compare < 0
          ELSE IF this.type # other.type
               THEN this.type = "End" \/ other.type = "Begin"
          ELSE this.index < other.index

\* the sorted vector with one more entry: the entry goes before the first
\* entry it is less than
insertSorted(sorted, entry) ==
  LET greater == {i \in 1..Len(sorted) : IndexData_less(entry, sorted[i])}
      at == IF greater = {} THEN Len(sorted) + 1
            ELSE CHOOSE i \in greater : \A j \in greater : i <= j
  IN [i \in 1..(Len(sorted) + 1) |->
        IF i < at THEN sorted[i] ELSE IF i = at THEN entry ELSE sorted[i - 1]]

\* the points of the vertices
InVertices == {<<0, 0>>, <<1, 0>>, <<0, 1>>, <<1, 1>>}

\* the graph gets one more vertex, and the index is sorted again
AddIndexDataOf(vertices, types) ==
  \E p \in vertices, t \in types :
    /\ Len(sorted_indices_) < MaxIndices
    /\ sorted_indices_' =
         insertSorted(sorted_indices_, IndexData(Len(sorted_indices_), p, t))
    /\ last_call' = [op |-> "sortedIndices", arg |-> <<p, t>>]
    /\ UNCHANGED <<pathState, laterObjects, command_list, intersection_events_,
                   next_intersection_, filled_region, other_path>>

\* the index is dropped with the graph
DropIndexData ==
  /\ sorted_indices_ # <<>>
  /\ sorted_indices_' = <<>>
  /\ last_call' = Call("reset")
  /\ UNCHANGED <<pathState, laterObjects, command_list, intersection_events_,
                 next_intersection_, filled_region, other_path>>

AddIndexData == AddIndexDataOf(InVertices, PointTypes)

NextIndex == AddIndexData \/ DropIndexData

SpecIndex == Init /\ [][NextIndex]_vars

\* the place of a type among the entries at one point
TypeRank(t) ==
  CASE t = "End" -> 0 [] t = "Continue" -> 1 [] t = "Begin" -> 2 [] t = "None" -> 3

\* the order of the entries: the typed entries before the None entries, then
\* by point, then End before Continue before Begin, then by vertex index
Before(a, b) ==
  IF (a.type = "None") # (b.type = "None") THEN b.type = "None"
  ELSE IF a.point # b.point THEN DPoint_compare(a.point, b.point) < 0
  ELSE IF a.type # b.type THEN TypeRank(a.type) < TypeRank(b.type)
  ELSE a.index < b.index

\* C19: the comparison of the sorted vertex index orders the entries by point,
\* then by type (End before Continue before Begin at a shared point), then by
\* vertex index, with the None entries after all typed entries; on entries
\* with distinct indices it is a strict total order, and the sorted index
\* lists the entries in that order.
C19_IndexOrder ==
  LET entries == {sorted_indices_[i] : i \in 1..Len(sorted_indices_)}
  IN /\ \A a \in entries : ~IndexData_less(a, a)
     /\ \A a, b \in entries :
          /\ IndexData_less(a, b) <=> Before(a, b)
          /\ a # b => (IndexData_less(a, b) # IndexData_less(b, a))
          /\ \A c \in entries :
               (IndexData_less(a, b) /\ IndexData_less(b, c)) => IndexData_less(a, c)
     /\ \A i, j \in 1..Len(sorted_indices_) :
          i < j => IndexData_less(sorted_indices_[i], sorted_indices_[j])

\* an End, a Continue and a Begin entry at one point, added in the opposite
\* order
C19_Witness ==
  /\ Len(sorted_indices_) = 3
  /\ sorted_indices_[1].type = "End" /\ sorted_indices_[1].index = 2
  /\ sorted_indices_[2].type = "Continue" /\ sorted_indices_[2].index = 1
  /\ sorted_indices_[3].type = "Begin" /\ sorted_indices_[3].index = 0
  /\ sorted_indices_[1].point = sorted_indices_[3].point
  /\ sorted_indices_[2].point = sorted_indices_[3].point


---------------------------------------------------------------------------
(* ScanLine: the queue of intersection events *)

\* the longest queue of intersection events
MaxEvents == 3

\* an IntersectionEvent at point, of the areas from1 -> to1 and from2 -> to2
IntersectionEvent(point, from1, to1, from2, to2) ==
  [point |-> point, area1_from_index |-> from1, area1_to_index |-> to1,
   area2_from_index |-> from2, area2_to_index |-> to2]

\* the loop of progressToNextIntersection from position i on, the selection
\* being next and its point being point
RECURSIVE selectFrom(_, _, _, _)
selectFrom(events, i, next, point) ==
  IF i >= Len(events) THEN next
  ELSE IF next = -1 \/ DPoint_compare(events[i + 1].point, point) < 0
       THEN selectFrom(events, i + 1, i, events[i + 1].point)
       ELSE selectFrom(events, i + 1, next, point)

\* Faulty variant of progressToNextIntersection that selects the first queued
\* event whatever its point; the property C20_SelectsEarliestMinimum tells it
\* from progressToNextIntersection.
progressToNextIntersection_first(events) == IF events = <<>> THEN -1 ELSE 0
\* ScanLine::progressToNextIntersection: the value of next_intersection_
progressToNextIntersection(events) == selectFrom(events, 0, -1, Origin)

\* the areas of the events
InAreas == {<<0, 1, 2, 3>>}

otherThanEvents ==
  <<pathState, laterObjects, command_list, sorted_indices_, filled_region, other_path>>

\* checkAddIntersection finds two neighbouring areas that cross and queues
\* the event
AddIntersectionEventAt(points) ==
  \E p \in points, a \in InAreas :
    /\ Len(intersection_events_) < MaxEvents
    /\ intersection_events_' =
         Append(intersection_events_, IntersectionEvent(p, a[1], a[2], a[3], a[4]))
    /\ last_call' = Call("checkAddIntersection")
    /\ UNCHANGED <<next_intersection_, otherThanEvents>>

AddIntersectionEvent == AddIntersectionEventAt(InVertices)

\* the selected event is processed and leaves the queue
RemoveIntersectionEvent ==
  /\ next_intersection_ \in 0..(Len(intersection_events_) - 1)
  /\ intersection_events_' =
       [i \in 1..(Len(intersection_events_) - 1) |->
          IF i <= next_intersection_ THEN intersection_events_[i]
          ELSE intersection_events_[i + 1]]
  /\ last_call' = Call("splitIntersection")
  /\ UNCHANGED <<next_intersection_, otherThanEvents>>

ProgressToNextIntersection ==
  /\ next_intersection_' = progressToNextIntersection(intersection_events_)
  /\ last_call' = Call("progressToNextIntersection")
  /\ UNCHANGED <<intersection_events_, otherThanEvents>>

\* std::vector::resize(count, value): the elements that stay keep their values
resize(vector, count, value) ==
  [i \in 1..count |-> IF i <= Len(vector) THEN vector[i] ELSE value]

\* ScanLine::progressToNextEvent: the value of current_index_, which skips the
\* vertices that are their own next edge
RECURSIVE progressToNextEvent(_, _, _)
progressToNextEvent(current, sorted, next_edge) ==
  IF current < Len(sorted)
       /\ next_edge[sorted[current + 1].index] = sorted[current + 1].index
    THEN progressToNextEvent(current + 1, sorted, next_edge)
  ELSE current

\* ScanLine::reset
Reset ==
  /\ alias_call = NoValue
  /\ edit_positions_' = resize(edit_positions_, Len(sorted_indices_), -1)
  /\ areas_' = <<>>
  /\ aliases_' = <<>>
  /\ intersection_events_' = <<>>
  /\ current_index_' = progressToNextEvent(0, sorted_indices_, next_edge_)
  /\ last_call' = Call("reset")
  /\ UNCHANGED <<pathState, command_list, sorted_indices_, next_intersection_,
                 filled_region, other_path, orientation_result, next_edge_,
                 alias_call, pairing>>

\* ScanLine::reset on a queue that holds events
ResetIntersectionEvents == intersection_events_ # <<>> /\ Reset

NextEvents ==
  \/ AddIntersectionEvent \/ RemoveIntersectionEvent
  \/ ProgressToNextIntersection \/ ResetIntersectionEvents

SpecEvents == Init /\ [][NextEvents]_vars

---------------------------------------------------------------------------
(* Winding numbers and fill rules *)

\* the most points of a figure
MaxFigurePoints == 4
\* the side of the square whose corners the figures join
FigureSide == 4

\* the corners
InFigure ==
  {<<0, 0>>, <<FigureSide, 0>>, <<FigureSide, FigureSide>>, <<0, FigureSide>>}

\* The sides and the diagonals of the square cut it into four triangular
\* faces around its centre; one inner point of each, in half grid steps.
FaceLeft == <<1, FigureSide>>
FaceRight == <<2 * FigureSide - 1, FigureSide>>
FaceBottom == <<FigureSide, 1>>
FaceTop == <<FigureSide, 2 * FigureSide - 1>>
Faces == {FaceLeft, FaceRight, FaceBottom, FaceTop}

\* a grid point in half grid steps
Twice(p) == PMul(p, 2)

\* positive when q is to the left of the line from a to b
isLeft(a, b, q) == (b[1] - a[1]) * (q[2] - a[2]) - (q[1] - a[1]) * (b[2] - a[2])

\* what the edge from a to b adds to the winding number of q: +1 when it
\* passes q upwards on the right of q, -1 when downwards
edgeWinding(a, b, q) ==
  IF a[2] <= q[2]
  THEN IF b[2] > q[2] /\ isLeft(a, b, q) > 0 THEN 1 ELSE 0
  ELSE IF b[2] <= q[2] /\ isLeft(a, b, q) < 0 THEN -1 ELSE 0

\* the winding number of q in the contour through points, which the fill
\* treats as closed, from its edge i on
RECURSIVE contourWinding(_, _, _)
contourWinding(points, i, q) ==
  IF i > Len(points) THEN 0
  ELSE edgeWinding(Twice(points[i]),
                   Twice(points[IF i = Len(points) THEN 1 ELSE i + 1]), q)
         + contourWinding(points, i + 1, q)

\* the winding number of q in the sub-paths
RECURSIVE winding(_, _)
winding(ps, q) ==
  IF ps = <<>> THEN 0
  ELSE contourWinding(ps[1].points, 1, q) + winding(Tail(ps), q)

\* Faulty variant of satisfiesFillRule that keeps only the positive windings
\* under every rule; the property C13_FigureEightFilled tells it from
\* satisfiesFillRule.
satisfiesFillRule_positiveOnly(fill_rule, w, minimum_cycles) == w >= minimum_cycles
\* the faces fixWindings keeps: NonZero keeps winding # 0, EvenOdd odd winding,
\* Positive winding > 0, with at least minimum_cycles turns
satisfiesFillRule(fill_rule, w, minimum_cycles) ==
  CASE fill_rule = "NonZero" -> Abs(w) >= minimum_cycles
    [] fill_rule = "Positive" -> w >= minimum_cycles
    [] fill_rule = "EvenOdd" -> w % 2 = 1

\* TriangulationGraph::fixWindings: the faces inside the cycles it leaves
fixWindings(ps, fill_rule, minimum_cycles) ==
  {q \in Faces : satisfiesFillRule(fill_rule, winding(ps, q), minimum_cycles)}

\* Path::triangulate: the faces the triangles cover (the monotone polygons and
\* the triangles cover what the cycles enclose)
triangulatedFaces(P) == fixWindings(P.paths_, P.fill_rule_, 1)

\* lineTo a corner
FigureLineTo ==
  \E p \in InFigure :
    LET Q == lineTo(Self, p, FALSE)
    IN /\ numPointsOf(Q.paths_) <= MaxFigurePoints
       /\ Set(Q) /\ last_call' = Call("lineTo") /\ History

FigureTriangulate ==
  /\ filled_region' = <<triangulatedFaces(Self)>>
  /\ last_call' = Call("triangulate")
  /\ UNCHANGED <<pathState, laterObjects, command_list, sorted_indices_, intersection_events_,
                 next_intersection_, other_path>>

\* drawing a figure on the corners and triangulating it under a fill rule
NextFill == FigureLineTo \/ SetFillRule \/ Clear \/ FigureTriangulate

SpecFill == Init /\ [][NextFill]_vars

\* the lobes of the figure-eight that the path draws: a path through the four
\* corners whose first and third edge are the two diagonals has the faces
\* at its second and at its closing edge as lobes
FigureEights ==
  {<<<<0, 0>>, <<FigureSide, FigureSide>>, <<FigureSide, 0>>, <<0, FigureSide>>>>,
   <<<<0, 0>>, <<FigureSide, FigureSide>>, <<0, FigureSide>>, <<FigureSide, 0>>>>}

Lobes(points) ==
  IF points[3] = <<FigureSide, 0>> THEN {FaceLeft, FaceRight}
  ELSE {FaceTop, FaceBottom}

TriangulatedFigureEight ==
  /\ last_call.op = "triangulate"
  /\ Len(paths_) = 1
  /\ paths_[1].points \in FigureEights

\* C13 as stated: the figure-eight triangulated under NonZero has no area in
\* one lobe and area in the other; under EvenOdd both lobes are filled.
C13_FigureEightLobes ==
  TriangulatedFigureEight =>
    LET lobes == Lobes(paths_[1].points)
        filled == filled_region[1]
    IN /\ fill_rule_ = "NonZero" =>
            \E empty \in lobes : empty \notin filled /\ lobes \ {empty} \subseteq filled
       /\ fill_rule_ = "EvenOdd" => lobes \subseteq filled

\* C13 amended: the figure-eight triangulated under NonZero has both lobes
\* filled (their windings are +1 and -1), as under EvenOdd; only under Positive
\* is exactly one lobe filled and the other empty. Nothing outside the lobes
\* is filled.
C13_FigureEightFilled ==
  TriangulatedFigureEight =>
    LET lobes == Lobes(paths_[1].points)
        filled == filled_region[1]
    IN /\ fill_rule_ \in {"NonZero", "EvenOdd"} => filled = lobes
       /\ fill_rule_ = "Positive" =>
            \E kept \in lobes : filled = {kept} /\ winding(paths_, kept) = 1

\* a figure-eight triangulated under NonZero
C13_Witness ==
  /\ TriangulatedFigureEight
  /\ fill_rule_ = "NonZero"
  /\ {winding(paths_, q) : q \in Lobes(paths_[1].points)} = {1, -1}


---------------------------------------------------------------------------
(* Boolean combination of two paths *)

Operations == {"Union", "Intersection", "Difference", "Xor"}

\* the number of cycles a face of an intersection needs
IntersectionCycles == 2

\* Path::combine(other, fill_rule, num_cycles_needed, reverse_other): the
\* graphs of both paths are merged, the contours of other reversed on
\* request, and the windings of the merged graph fixed; the faces of the
\* path it returns
combine(P, other, fill_rule, num_cycles_needed, reverse_other) ==
  fixWindings(P.paths_ \o (IF reverse_other THEN reverse(other) ELSE other).paths_,
              fill_rule, num_cycles_needed)

\* Path::combine(other, operation): a face of the union needs one turn of
\* the merged contours, a face of the intersection two; the difference
\* reverses other, so that its turns are taken off; the symmetric difference
\* keeps the faces with an odd number of turns
combineOperation(P, other, operation) ==
  CASE operation = "Union" -> combine(P, other, "Positive", 1, FALSE)
    [] operation = "Intersection" ->
         combine(P, other, "Positive", IntersectionCycles, FALSE)
    [] operation = "Difference" -> combine(P, other, "Positive", 1, TRUE)
    [] operation = "Xor" -> combine(P, other, "EvenOdd", 1, FALSE)

\* a run of lineTo calls
RECURSIVE lineToAll(_, _)
lineToAll(P, points) ==
  IF points = <<>> THEN P
  ELSE lineToAll(lineTo(P, points[1], FALSE), Tail(points))

\* the runs: the square both ways round, its two halves, and the square
\* followed by one half, which goes round that half twice
InShapes ==
  LET a == <<0, 0>>
      b == <<FigureSide, 0>>
      c == <<FigureSide, FigureSide>>
      d == <<0, FigureSide>>
  IN {<<b, c, d>>, <<d, c, b>>, <<b, c>>, <<c, d>>, <<b, c, d, a, b, c>>}

DrawShape ==
  \E shape \in InShapes :
    /\ paths_ = <<>>
    /\ Set(lineToAll(Self, shape)) /\ last_call' = Call("lineTo") /\ History

otherThanOther ==
  <<pathState, laterObjects, command_list, sorted_indices_, intersection_events_,
    next_intersection_, filled_region>>

DrawOther ==
  \E shape \in InShapes :
    /\ other_path.paths_ = <<>>
    /\ other_path' = lineToAll(other_path, shape)
    /\ last_call' = [op |-> "lineTo", arg |-> <<"other">>]
    /\ UNCHANGED otherThanOther

ClearOther ==
  /\ other_path.paths_ # <<>>
  /\ other_path' = clear(other_path)
  /\ last_call' = [op |-> "clear", arg |-> <<"other">>]
  /\ UNCHANGED otherThanOther

\* this->combine(other_path, operation)
Combine ==
  \E operation \in Operations :
    /\ filled_region' = <<combineOperation(Self, other_path, operation)>>
    /\ last_call' = [op |-> "combine", arg |-> <<operation, "other">>]
    /\ UNCHANGED <<pathState, laterObjects, command_list, sorted_indices_, intersection_events_,
                   next_intersection_, other_path>>

\* this->combine(*this, operation)
CombineWithItself ==
  \E operation \in Operations :
    /\ filled_region' = <<combineOperation(Self, Self, operation)>>
    /\ last_call' = [op |-> "combine", arg |-> <<operation, "this">>]
    /\ UNCHANGED <<pathState, laterObjects, command_list, sorted_indices_, intersection_events_,
                   next_intersection_, other_path>>

NextCombine ==
  \/ DrawShape \/ DrawOther \/ Clear \/ ClearOther \/ SetFillRule
  \/ Combine \/ CombineWithItself

SpecCombine == Init /\ [][NextCombine]_vars

\* a source covers a face when its winding number there is at least 1
Covers(P, q) == winding(P.paths_, q) >= 1

\* the faces an operation keeps, by the coverage of each source
KeptBy(operation, P, other) ==
  {q \in Faces :
     CASE operation = "Union" -> Covers(P, q) \/ Covers(other, q)
       [] operation = "Intersection" -> Covers(P, q) /\ Covers(other, q)
       [] operation = "Difference" -> Covers(P, q) /\ ~Covers(other, q)
       [] operation = "Xor" -> Covers(P, q) # Covers(other, q)}

\* C11: the path that combine(other, operation) returns fills the faces that
\* the operation keeps by the coverage of each source (Union: either covers,
\* Intersection: both cover, Difference: the first covers and the second does
\* not, Xor: exactly one covers), whatever the windings of the sources.
C11_CombineByCoverage ==
  (last_call.op = "combine" /\ last_call.arg[2] = "other") =>
    filled_region[1] = KeptBy(last_call.arg[1], Self, other_path)

\* C12: for every path A, A.combine(A, Intersection) fills the faces that A
\* itself fills, A.combine(A, Xor) fills nothing, and A.combine(empty path,
\* Union) fills the faces that A itself fills.
C12_CombineIdentities ==
  last_call.op = "combine" =>
    /\ last_call.arg = <<"Intersection", "this">> =>
         filled_region[1] = triangulatedFaces(Self)
    /\ last_call.arg = <<"Xor", "this">> => filled_region[1] = {}
    /\ (last_call.arg = <<"Union", "other">> /\ other_path.paths_ = <<>>) =>
         filled_region[1] = triangulatedFaces(Self)


----------------------------------------------------------------------------
(* orientation and stableOrientation *)

\* the largest coordinate of a thin triangle that the model tests
ThinScale == 100000

\* integer coordinates up to here keep |l + r| below 1 / kEpsilon
SafeCoord == 32768

\* kEpsilon = 1.0e-10: the number of decimal places it shifts by
kEpsilonDigits == 10

RECURSIVE Digits(_)
Digits(n) == IF n = 0 THEN <<>> ELSE <<n % 10>> \o Digits(n \div 10)

RECURSIVE Trim(_)
Trim(digits) ==
  IF digits = <<>> \/ Last(digits) # 0 THEN digits
  ELSE Trim(SubSeq(digits, 1, Len(digits) - 1))

Rest(digits) == IF digits = <<>> THEN <<>> ELSE Tail(digits)
Lowest(digits) == IF digits = <<>> THEN 0 ELSE digits[1]

\* digits * k + carry
RECURSIVE Scaled(_, _, _)
Scaled(digits, k, carry) ==
  IF digits = <<>> THEN Digits(carry)
  ELSE LET v == digits[1] * k + carry
       IN <<v % 10>> \o Scaled(Tail(digits), k, v \div 10)

RECURSIVE MagAdd(_, _, _)
MagAdd(x, y, carry) ==
  IF x = <<>> /\ y = <<>> THEN Digits(carry)
  ELSE LET v == Lowest(x) + Lowest(y) + carry
       IN <<v % 10>> \o MagAdd(Rest(x), Rest(y), v \div 10)

\* x - y - borrow, for x >= y
RECURSIVE MagSub(_, _, _)
MagSub(x, y, borrow) ==
  IF x = <<>> THEN <<>>
  ELSE LET v == Lowest(x) - Lowest(y) - borrow
       IN <<(v + 10) % 10>> \o MagSub(Rest(x), Rest(y), IF v < 0 THEN 1 ELSE 0)

MagLess(x, y) ==
  \/ Len(x) < Len(y)
  \/ /\ Len(x) = Len(y)
     /\ \E i \in 1..Len(x) :
          /\ x[i] < y[i]
          /\ \A j \in (i + 1)..Len(x) : x[j] = y[j]

\* x * 10^places
Shifted(x, places) == IF x = <<>> THEN <<>> ELSE [i \in 1..places |-> 0] \o x

\* operator* on two doubles that hold integers
DMul(a, b) ==
  IF a = 0 \/ b = 0 THEN DZero
  ELSE [negative |-> (a < 0) # (b < 0),
        digits |-> Scaled(Digits(Abs(a)), Abs(b), 0)]

DNeg(a) == [negative |-> ~a.negative /\ a.digits # <<>>, digits |-> a.digits]

DAdd(a, b) ==
  IF a.negative = b.negative
    THEN [negative |-> a.negative, digits |-> MagAdd(a.digits, b.digits, 0)]
  ELSE IF MagLess(a.digits, b.digits)
    THEN [negative |-> b.negative, digits |-> Trim(MagSub(b.digits, a.digits, 0))]
  ELSE LET d == Trim(MagSub(a.digits, b.digits, 0))
       IN [negative |-> a.negative /\ d # <<>>, digits |-> d]

DSub(a, b) == DAdd(a, DNeg(b))

orientation(source, target1, target2) ==
  LET delta1 == PSub(target1, source)
      delta2 == PSub(target2, source)
      l == DMul(delta2[2], delta1[1])
      r == DMul(delta2[1], delta1[2])
      sum == DAdd(l, r).digits
      diff == DSub(l, r)
  IN IF ~MagLess(Shifted(diff.digits, kEpsilonDigits), sum) THEN diff ELSE DZero

\* no retry on the other rotations
stableOrientation_noRetry(source, target1, target2) ==
  orientation(source, target1, target2)

stableOrientation(source, target1, target2) ==
  LET result == orientation(source, target1, target2)
      second == orientation(target2, source, target1)
  IN IF result # DZero THEN result
     ELSE IF second # DZero THEN second
     ELSE orientation(target1, target2, source)

\* thin triangles of doubled area 1 on the scale n, and points close by
Thin(n) == {Pt(n, n - 1), Pt(n + 1, n), Pt(2 * n + 1, 2 * n - 1)}

InOrientationPoints ==
  {Pt(0, 0), Pt(1, 0), Pt(2, 2)}
    \cup Thin((SafeCoord - 1) \div 2) \cup Thin(ThinScale)

StableOrientation ==
  \E source \in InOrientationPoints, target1 \in InOrientationPoints,
     target2 \in InOrientationPoints :
    /\ orientation_result' = stableOrientation(source, target1, target2)
    /\ last_call' = [op |-> "stableOrientation",
                     arg |-> <<source, target1, target2>>]
    /\ UNCHANGED <<pathState, sweepObjects, scanLineObjects, pairing>>

SpecOrientation == Init /\ [][StableOrientation]_vars

\* the signed doubled area of the triangle, exactly
DoubledArea(s, t1, t2) ==
  LET d1 == PSub(t1, s)
      d2 == PSub(t2, s)
  IN DSub(DMul(d2[2], d1[1]), DMul(d2[1], d1[2]))

Rotations(s, t1, t2) ==
  <<orientation(s, t1, t2), orientation(t2, s, t1), orientation(t1, t2, s)>>

FirstNonZero(results) ==
  IF \A i \in 1..Len(results) : results[i] = DZero THEN DZero
  ELSE results[CHOOSE i \in 1..Len(results) :
                 /\ results[i] # DZero
                 /\ \A j \in 1..(i - 1) : results[j] = DZero]

InSafeRange(p) == Abs(p[1]) <= SafeCoord /\ Abs(p[2]) <= SafeCoord

\* what every call of stableOrientation on exact inputs does
RotatesAndNegates(s, t1, t2) ==
  /\ orientation_result = FirstNonZero(Rotations(s, t1, t2))
  /\ \A i \in 1..3 :
       Rotations(s, t1, t2)[i] # DZero =>
         Rotations(s, t1, t2)[i].negative = orientation_result.negative
  /\ stableOrientation(s, t2, t1) = DNeg(orientation_result)

\* C21 as stated: stableOrientation returns the first non-zero result of the
\* three rotations, and on integer coordinates it is non-zero whenever the
\* points are not exactly collinear, has the sign of every rotation and is
\* negated by swapping the targets.
C21_NonZeroUnlessCollinear ==
  last_call.op = "stableOrientation" =>
    LET s == last_call.arg[1]
        t1 == last_call.arg[2]
        t2 == last_call.arg[3]
    IN /\ RotatesAndNegates(s, t1, t2)
       /\ DoubledArea(s, t1, t2) # DZero => orientation_result # DZero

\* C21, amended: stableOrientation returns the first non-zero result of the
\* three rotations, has the sign of every non-zero rotation and is negated by
\* swapping the targets; it is non-zero for every triple that is not exactly
\* collinear when the integer coordinates are at most SafeCoord in magnitude.
C21_NonZeroInSafeRange ==
  last_call.op = "stableOrientation" =>
    LET s == last_call.arg[1]
        t1 == last_call.arg[2]
        t2 == last_call.arg[3]
    IN /\ RotatesAndNegates(s, t1, t2)
       /\ (InSafeRange(s) /\ InSafeRange(t1) /\ InSafeRange(t2)
             /\ DoubledArea(s, t1, t2) # DZero) =>
            orientation_result = DoubledArea(s, t1, t2)

\* a thin triangle near the end of the safe range gets its exact area
C21_Witness ==
  /\ last_call.op = "stableOrientation"
  /\ \A i \in 1..3 : InSafeRange(last_call.arg[i])
  /\ \E i \in 1..3 : last_call.arg[i][1] > SafeCoord \div 2
  /\ DoubledArea(last_call.arg[1], last_call.arg[2], last_call.arg[3]).digits = <<1>>
  /\ orientation_result.digits = <<1>>

\* the retry decides: the first rotation is 0 and a later one is not
C21_RetryWitness ==
  /\ last_call.op = "stableOrientation"
  /\ orientation(last_call.arg[1], last_call.arg[2], last_call.arg[3]) = DZero
  /\ orientation_result # DZero

----------------------------------------------------------------------------
(* ScanLine: the sweep over the sorted index, and the aliases *)

ScanLineArea(from_index, from, to_index, to, forward) ==
  [from_index |-> from_index, from |-> from, to_index |-> to_index, to |-> to,
   forward |-> forward, data |-> 0]

hasNext == current_index_ < Len(sorted_indices_)

resolveAlias(aliases, index) ==
  IF index \in DOMAIN aliases THEN aliases[index] ELSE index

\* the indices of the vertices
InIndices == 0..(MaxIndices - 1)

otherThanScanLine ==
  <<pathState, command_list, filled_region, other_path, orientation_result,
    pairing>>

\* the graph gets a vertex at the origin
AddVertex == alias_call = NoValue /\ AddIndexDataOf({Origin}, {"Begin"})

\* TriangulationGraph::removeFromCycle leaves the vertex as its own next edge
RemoveFromCycle(indices) ==
  \E index \in indices :
    /\ alias_call = NoValue
    /\ next_edge_[index] # index
    /\ next_edge_' = [next_edge_ EXCEPT ![index] = index]
    /\ last_call' = [op |-> "removeFromCycle", arg |-> <<index>>]
    /\ UNCHANGED <<otherThanScanLine, sorted_indices_, intersection_events_,
                   next_intersection_, areas_, aliases_, current_index_,
                   edit_positions_, alias_call>>

\* the point of a vertex that the index holds
PointOfVertex(index, otherwise) ==
  IF \E i \in 1..Len(sorted_indices_) : sorted_indices_[i].index = index
    THEN sorted_indices_[CHOOSE i \in 1..Len(sorted_indices_) :
                           sorted_indices_[i].index = index].point
  ELSE otherwise

\* ScanLine::update: the area that begins at the event enters the scan line
\* (in place of the last area when the scan line is full), its position is
\* recorded for the vertex, and the sweep goes on to the next live event
UpdateNormalEvent ==
  LET current == sorted_indices_[current_index_ + 1]
      next_index == resolveAlias(aliases_, next_edge_[current.index])
      area == ScanLineArea(current.index, current.point, next_index,
                           PointOfVertex(next_index, current.point), TRUE)
      position == IF Len(areas_) < MaxAreas THEN Len(areas_) ELSE Len(areas_) - 1
  IN /\ alias_call = NoValue
     /\ hasNext
     /\ current.index < Len(edit_positions_)
     /\ areas_' = [i \in 1..(position + 1) |->
                     IF i = position + 1 THEN area ELSE areas_[i]]
     /\ edit_positions_' = [edit_positions_ EXCEPT ![current.index + 1] = position]
     /\ current_index_' =
          progressToNextEvent(current_index_ + 1, sorted_indices_, next_edge_)
     /\ last_call' = [op |-> "update", arg |-> <<current.index>>]
     /\ UNCHANGED <<otherThanScanLine, sorted_indices_, intersection_events_,
                    next_intersection_, aliases_, next_edge_, alias_call>>

otherThanAliases ==
  <<otherThanScanLine, sorted_indices_, intersection_events_,
    next_intersection_, areas_, current_index_, edit_positions_, next_edge_>>

\* ScanLine::addAlias is entered
AddAliasCall(pairs) ==
  \E pair \in pairs :
    /\ alias_call = NoValue
    /\ alias_call' = <<[alias |-> pair[1], original |-> pair[2], steps |-> 0]>>
    /\ last_call' = [op |-> "addAlias", arg |-> pair]
    /\ UNCHANGED <<aliases_, otherThanAliases>>

\* one iteration of its loop: original = aliases_[original]
AddAliasLoop ==
  /\ alias_call # NoValue
  /\ alias_call[1].original \in DOMAIN aliases_
  /\ alias_call[1].steps <= MaxIndices
  /\ alias_call' = <<[alias_call[1] EXCEPT !.original = aliases_[@],
                                           !.steps = @ + 1]>>
  /\ UNCHANGED <<aliases_, last_call, otherThanAliases>>

\* the loop is left: aliases_[alias] = original
AddAliasAssign ==
  /\ alias_call # NoValue
  /\ alias_call[1].original \notin DOMAIN aliases_
  /\ aliases_' = [index \in DOMAIN aliases_ \cup {alias_call[1].alias} |->
                    IF index = alias_call[1].alias THEN alias_call[1].original
                    ELSE aliases_[index]]
  /\ alias_call' = NoValue
  /\ UNCHANGED <<last_call, otherThanAliases>>

NextScanLine ==
  \/ AddVertex \/ RemoveFromCycle({0}) \/ UpdateNormalEvent
  \/ (alias_call = NoValue /\ AddIntersectionEventAt({Origin}))
  \/ (alias_call = NoValue /\ ProgressToNextIntersection)
  \/ AddAliasCall({<<1, 2>>, <<0, 1>>}) \/ AddAliasLoop \/ AddAliasAssign
  \/ Reset

SpecScanLine == Init /\ [][NextScanLine]_vars

\* the position of the first event of the sorted index whose vertex is not
\* its own next edge
FirstLiveEvent ==
  LET live == {i \in 0..(Len(sorted_indices_) - 1) :
                 next_edge_[sorted_indices_[i + 1].index] # sorted_indices_[i + 1].index}
  IN IF live = {} THEN Len(sorted_indices_)
     ELSE CHOOSE i \in live : \A j \in live : i <= j

\* C22: after ScanLine::reset(), whatever sweep ran before, the active
\* areas, the alias map and the pending intersection events are empty, the
\* current index is at the first live event of the sorted index, the selected
\* intersection is unset and every edit position is -1, as after reset() on
\* a newly constructed ScanLine.
C22_ResetRebuildsState ==
  last_call.op = "reset" =>
    /\ areas_ = <<>>
    /\ aliases_ = <<>>
    /\ intersection_events_ = <<>>
    /\ current_index_ = FirstLiveEvent
    /\ next_intersection_ = -1
    /\ Len(edit_positions_) = Len(sorted_indices_)
    /\ \A i \in 1..Len(edit_positions_) : edit_positions_[i] = -1

\* C28: after any sequence of addAlias calls the alias map is flat: no key
\* of the map is a value of an entry, so the single lookup of resolveAlias
\* returns an index that is not itself aliased.
C28_AliasMapFlat ==
  /\ \A index \in DOMAIN aliases_ : aliases_[index] \notin DOMAIN aliases_
  /\ \A index \in InIndices : resolveAlias(aliases_, index) \notin DOMAIN aliases_

\* addAlias on every pair of indices
NextAliases ==
  \/ AddAliasCall(InIndices \X InIndices) \/ AddAliasLoop \/ AddAliasAssign
  \/ Reset

SpecAliases == Init /\ [][NextAliases]_vars

\* following the aliases from index ends at an index that is not aliased
RECURSIVE ChainEnds(_, _)
ChainEnds(index, fuel) ==
  \/ index \notin DOMAIN aliases_
  \/ fuel > 0 /\ ChainEnds(aliases_[index], fuel - 1)

\* C29: addAlias terminates for every sequence of calls and every pair of
\* indices: the alias map never holds a self-alias or a cycle, and the loop of
\* a call takes no more iterations than the map has entries.
C29_AddAliasTerminates ==
  /\ \A index \in DOMAIN aliases_ :
       /\ aliases_[index] # index
       /\ ChainEnds(index, Cardinality(DOMAIN aliases_))
  /\ alias_call # NoValue =>
       alias_call[1].steps <= Cardinality(DOMAIN aliases_)

----------------------------------------------------------------------------
(* The current point, closed sub-paths and clear() *)

\* C24: after any sequence of public Path calls, whenever the last sub-path
\* is non-empty and open, the current point (the start of the next segment
\* and the base of relative coordinates) is that sub-path's last point.
C24_CurrentPointIsLastPoint ==
  (paths_ # <<>> /\ Last(paths_).points # <<>> /\ ~Last(paths_).closed) =>
    last_point_ = Last(Last(paths_).points)

\* the sub-paths that hold a point
NonEmpty(paths) == {k \in 1..Len(paths) : paths[k].points # <<>>}

\* the last sub-path that holds a point
LastNonEmpty(paths) ==
  paths[CHOOSE k \in NonEmpty(paths) : \A j \in NonEmpty(paths) : j <= k]

\* C25: after close() on a non-empty sub-path the current point is that
\* sub-path's first point; a closed sub-path is not modified by a later
\* moveTo, draw command or close(); and a draw command issued while the path
\* ends closed with no moveTo since the close starts a new sub-path at the
\* first point of the closed sub-path. A moveTo after close() leaves an open
\* empty sub-path at the end, unless a second close() has left an empty closed
\* one there (currentPath() appends it), so in that case the draw command is
\* taken right after the close().
C25_CloseReturnsToFirstPoint ==
  [][/\ (last_call'.op = "close" /\ paths_ # <<>> /\ Last(paths_).points # <<>>) =>
          last_point_' = Last(paths_).points[1]
     /\ last_call'.op \in EditOps \cup {"moveTo"} =>
          \A k \in 1..Len(paths_) :
            (paths_[k].closed /\ paths_[k].points # <<>>) =>
              /\ k <= Len(paths_')
              /\ paths_'[k] = paths_[k]
     /\ (/\ last_call'.op \in DrawOps
         /\ paths_ # <<>>
         /\ Last(paths_).closed
         /\ Last(paths_).points = <<>> =>
              (last_call.op = "close" /\ last_call.arg # <<>>)) =>
          /\ Len(paths_') = Len(paths_) + 1
          /\ Last(paths_').points # <<>>
          /\ Last(paths_').points[1] = LastNonEmpty(paths_).points[1]]_vars

\* a sub-path that began at a moveTo point was closed, and the next draw
\* command started a sub-path there
C25_Witness ==
  /\ last_call.op \in DrawOps
  /\ Len(paths_) = 2
  /\ paths_[1].closed
  /\ paths_[1].points[1] # Origin
  /\ Len(paths_[2].points) = 2
  /\ paths_[2].points[1] = paths_[1].points[1]

\* close() moved the last point onto the first, and the current point with it
C25_SnapWitness ==
  /\ last_call.op = "close"
  /\ last_call.arg # <<>>
  /\ last_call.arg[2] # Last(paths_).points[1]
  /\ Len(Last(paths_).points) = last_call.arg[1]
  /\ last_point_ = Last(paths_).points[1]

\* C26: after any sequence of edit commands no sub-path holds two
\* consecutive identical points.
C26_NoConsecutiveDuplicates ==
  \A k \in 1..Len(paths_) :
    \A i \in 1..(Len(paths_[k].points) - 1) :
      paths_[k].points[i] # paths_[k].points[i + 1]

\* a newly constructed Path with the fill rule and error tolerance of this one
FreshPath ==
  [DefaultPath EXCEPT !.fill_rule_ = fill_rule_,
                      !.error_tolerance_ = error_tolerance_]

\* C27: after clear() the Path is in the editing state of a newly constructed
\* Path with the same fill rule and error tolerance: an edit command builds
\* the same sub-paths (points, values, closed flags) on it as on a new Path.
C27_ClearEqualsFresh ==
  last_call.op = "clear" =>
    /\ \A target \in InTargets :
         /\ lineTo(Self, target[1], target[2]).paths_
              = lineTo(FreshPath, target[1], target[2]).paths_
         /\ smoothQuadraticTo(Self, target[1], target[2]).paths_
              = smoothQuadraticTo(FreshPath, target[1], target[2]).paths_
         /\ \A control \in InControls :
              smoothBezierTo(Self, control, target[1], target[2]).paths_
                = smoothBezierTo(FreshPath, control, target[1], target[2]).paths_

----------------------------------------------------------------------------
(* ScanLine::pairInsOuts *)

\* the most areas of one call
MaxPairAreas == 4

\* DPoint::operator<
DPoint_less(a, b) == DPoint_compare(a, b) < 0

\* ScanLineArea::operator<
ScanLineArea_less(this, other) ==
  LET turn ==
        IF DPoint_less(other.from, this.from)
          THEN stableOrientation(other.from, other.to, this.from)
        ELSE IF DPoint_less(this.from, other.from)
          THEN DNeg(stableOrientation(this.from, this.to, other.from))
        ELSE DZero
  IN IF turn # DZero THEN turn.negative
     ELSE IF this.to = other.from /\ this.from # other.to THEN TRUE
     ELSE IF this.from = other.to /\ this.to # other.from THEN FALSE
     ELSE IF DPoint_less(other.to, this.to)
       THEN stableOrientation(other.from, other.to, this.to).negative
     ELSE IF DPoint_less(this.to, other.to)
       THEN LET result == stableOrientation(this.from, this.to, other.to)
            IN ~result.negative /\ result # DZero
     ELSE FALSE

\* no element is less than an element before it
IsSorted(areas) ==
  \A i, j \in 1..Len(areas) : i < j => ~ScanLineArea_less(areas[j], areas[i])

\* the orders of the elements at indices, each order beginning with an
\* element that no other element is less than; less[j][i] tells whether the
\* element at j is less than the element at i
RECURSIVE ordersOf(_, _, _)
ordersOf(areas, indices, less) ==
  IF indices = {} THEN {<<>>}
  ELSE UNION {{<<areas[i]>> \o rest : rest \in ordersOf(areas, indices \ {i}, less)} :
                i \in {i \in indices : \A j \in indices : ~less[j][i]}}

\* std::sort(areas.begin(), areas.end()): the orders it can leave. It is not
\* stable, so equivalent elements come in any order; when the comparison
\* orders no permutation, the behaviour is undefined and any order is left.
sortedOrders(areas) ==
  LET n == Len(areas)
      less == [j \in 1..n |-> [i \in 1..n |-> ScanLineArea_less(areas[j], areas[i])]]
      sorted == ordersOf(areas, 1..n, less)
  IN IF sorted # {} THEN sorted
     ELSE ordersOf(areas, 1..n, [j \in 1..n |-> [i \in 1..n |-> FALSE]])

\* std::vector::erase, twice at the iterator it
eraseTwo(areas, it) ==
  [i \in 1..(Len(areas) - 2) |-> IF i <= it THEN areas[i] ELSE areas[i + 2]]

\* Faulty variant of the lambda pair that leaves the iterator behind the
\* erased pair; the property C30_PairsInsWithOuts tells it from pair.
pair_staysBehind(areas, it) == [areas |-> eraseTwo(areas, it), it |-> it]

\* the lambda pair of pairInsOuts, after handle_pair: the vector and the
\* iterator it leaves
pair(areas, it) ==
  LET erased == eraseTwo(areas, it)
  IN [areas |-> erased,
      it |-> IF it # 0 /\ it # Len(erased) THEN it - 1 ELSE it]

\* Faulty variant of the test of the first loop that does not compare the end
\* points; the property C23_SameDirectionFirst tells it from sameDirection.
sameDirection_anyPoints(areas, it) ==
  /\ it + 1 < Len(areas)
  /\ areas[it + 1].forward # areas[it + 2].forward

\* the test of the first loop
sameDirection(areas, it) ==
  /\ it + 1 < Len(areas)
  /\ areas[it + 1].forward # areas[it + 2].forward
  /\ areas[it + 1].from = areas[it + 2].from
  /\ areas[it + 1].to = areas[it + 2].to

\* the test of the second loop
crossDirection(areas, it) ==
  /\ it + 1 < Len(areas)
  /\ areas[it + 1].forward # areas[it + 2].forward

\* handle_pair(*it, *next, index), recorded with the vector it was called on
handlePair(call, pass) ==
  Append(call.handled,
         [first |-> call.areas[call.it + 1], second |-> call.areas[call.it + 2],
          index |-> call.it, pass |-> pass, areas |-> call.areas])

\* one iteration of a loop of pairInsOuts whose test is paired
iterate(call, paired, pass) ==
  IF paired
    THEN LET after == pair(call.areas, call.it)
         IN [call EXCEPT !.handled = handlePair(call, pass),
                         !.areas = after.areas, !.it = after.it,
                         !.steps = @ + 1]
  ELSE [call EXCEPT !.it = @ + 1, !.steps = @ + 1]

\* the areas at a vertex at the origin: edges that leave it for (0, 2) and
\* for (1, 2), and an edge that reaches it from (0, -2)
AreaKinds ==
  {ScanLineArea(0, Origin, 1, Pt(0, 2), forward) : forward \in BOOLEAN}
    \cup {ScanLineArea(0, Origin, 2, Pt(1, 2), forward) : forward \in BOOLEAN}
    \cup {ScanLineArea(3, Pt(0, -2), 0, Origin, TRUE)}

\* the vectors of areas, each area told by its data
InPairAreas ==
  UNION {{[i \in 1..n |-> [kinds[i] EXCEPT !.data = i]] :
            kinds \in [1..n -> AreaKinds]} : n \in 0..MaxPairAreas}

otherThanPairing ==
  <<pathState, sweepObjects, orientation_result, scanLineObjects>>

\* pairInsOuts is entered and sorts the areas
PairInsOuts ==
  /\ pairing.pass = "idle"
  /\ \E input \in InPairAreas :
       \E sorted \in sortedOrders(input) :
         pairing' = [input |-> input, sorted |-> sorted, areas |-> sorted,
                     it |-> 0, pass |-> "same", handled |-> <<>>, steps |-> 0]
  /\ last_call' = Call("pairInsOuts")
  /\ UNCHANGED otherThanPairing

\* one iteration of the first loop, or its end
PairSameDirection ==
  /\ pairing.pass = "same"
  /\ pairing' =
       IF pairing.it = Len(pairing.areas)
         THEN [pairing EXCEPT !.pass = "cross", !.it = 0]
       ELSE iterate(pairing, sameDirection(pairing.areas, pairing.it), 1)
  /\ UNCHANGED <<last_call, otherThanPairing>>

\* one iteration of the second loop, or its end
PairCrossDirection ==
  /\ pairing.pass = "cross"
  /\ pairing' =
       IF pairing.it = Len(pairing.areas)
         THEN [pairing EXCEPT !.pass = "done"]
       ELSE iterate(pairing, crossDirection(pairing.areas, pairing.it), 2)
  /\ UNCHANGED <<last_call, otherThanPairing>>

\* pairInsOuts returns
PairInsOutsReturn ==
  /\ pairing.pass = "done"
  /\ pairing' = NoPairing
  /\ UNCHANGED <<last_call, otherThanPairing>>

NextPairs ==
  PairInsOuts \/ PairSameDirection \/ PairCrossDirection \/ PairInsOutsReturn

SpecPairs == Init /\ [][NextPairs]_vars

\* the areas that the handler was given
Handed ==
  {pairing.handled[k].first.data : k \in 1..Len(pairing.handled)}
    \cup {pairing.handled[k].second.data : k \in 1..Len(pairing.handled)}

\* C23: pairInsOuts first sorts the areas with the comparator of the scan
\* line; the pairs of the first pass are adjacent areas with equal from and
\* to points and opposite forward flags, and no pair of the second pass
\* (adjacent areas with opposite forward flags) is handled before the first
\* pass has ended, which leaves no such adjacent areas; every area is handed
\* to the pair handler at most once, and only with the area next to it in the
\* vector as it is at that call.
C23_SameDirectionFirst ==
  /\ IsSorted(pairing.sorted)
  /\ \A k \in 1..Len(pairing.handled) :
       LET h == pairing.handled[k]
       IN /\ h.first = h.areas[h.index + 1]
          /\ h.second = h.areas[h.index + 2]
          /\ h.first.forward # h.second.forward
          /\ h.pass = 1 => (h.first.from = h.second.from /\ h.first.to = h.second.to)
          /\ h.pass = 2 => pairing.pass \in {"cross", "done"}
          /\ \A l \in 1..Len(pairing.handled) : k < l => h.pass <= pairing.handled[l].pass
  /\ Cardinality(Handed) = 2 * Len(pairing.handled)
  /\ (pairing.pass = "cross"
        /\ \A k \in 1..Len(pairing.handled) : pairing.handled[k].pass = 1) =>
       \A it \in 0..(Len(pairing.areas) - 2) : ~sameDirection(pairing.areas, it)

\* a same-direction pair was handled in the first pass and a pair of areas
\* with different end points in the second
C23_Witness ==
  /\ pairing.pass = "done"
  /\ Len(pairing.handled) = 2
  /\ pairing.handled[1].pass = 1
  /\ pairing.handled[2].pass = 2
  /\ pairing.handled[2].first.to # pairing.handled[2].second.to

Forwards(areas) == {i \in 1..Len(areas) : areas[i].forward}
Backwards(areas) == {i \in 1..Len(areas) : ~areas[i].forward}
Fewer(m, n) == IF m < n THEN m ELSE n

\* C30: pairInsOuts terminates for every input (each loop takes at most two
\* iterations per area), each handled pair has one forward and one
\* non-forward area, and on return all areas left have the same forward flag:
\* the handler has been called min(F, B) times.
C30_PairsInsWithOuts ==
  /\ pairing.steps <= 4 * Len(pairing.input)
  /\ \A k \in 1..Len(pairing.handled) :
       pairing.handled[k].first.forward # pairing.handled[k].second.forward
  /\ pairing.pass = "done" =>
       /\ \A i, j \in 1..Len(pairing.areas) :
            pairing.areas[i].forward = pairing.areas[j].forward
       /\ Len(pairing.handled) =
            Fewer(Cardinality(Forwards(pairing.input)),
                  Cardinality(Backwards(pairing.input)))

\* two pairs were handled in the second pass, the second after a step back
C30_Witness ==
  /\ pairing.pass = "done"
  /\ Len(pairing.input) = 4
  /\ Len(pairing.handled) = 2
  /\ pairing.handled[1].pass = 2
  /\ pairing.handled[1].index = 1
  /\ pairing.handled[2].index = 0
  /\ pairing.areas = <<>>
=============================================================================
